---------------------------- MODULE Spec2Model ----------------------------
(***************************************************************************)
(* Model of the switch-probability engine of the trading-intelligence     *)
(* agent: SwitchProbabilityCalculator (agents-service/segmentation_agent/  *)
(* switch_probability.py).                                                 *)
(*                                                                         *)
(* Numbers.  Probabilities and scores are Python floats; the model keeps   *)
(* them as fixed-point integers in units of 1e-6 (0.30 is 300000), which   *)
(* is also the epsilon the code adds to its variance denominators.         *)
(* Divisions truncate at that resolution.  NaN is a separate value.        *)
(*                                                                         *)
(* Exceptions.  A Python block that may raise is an operator returning an  *)
(* outcome [exc, val]; a try/except is the operator that maps exc to the   *)
(* handler's value.                                                        *)
(***************************************************************************)
EXTENDS Integers, Sequences, FiniteSets, TLC

\* one caller of one calculator
VARIABLES self, pc, args, ret

\* threads calling one calculator on shared frames
VARIABLES shared, orig, th

\* threads using one AlertQueue
VARIABLES queue, qth, now, trace

\* one caller of the segmentation agent's entry points
VARIABLES svc

\* the alert routes of the API: requests and event streams
VARIABLES sse

calc_vars == <<self, pc, args, ret>>
thread_vars == <<shared, orig, th>>
queue_vars == <<queue, qth, now, trace>>
service_vars == <<svc>>
stream_vars == <<sse>>

vars == <<calc_vars, thread_vars, queue_vars, service_vars, stream_vars>>

-----------------------------------------------------------------------------
(* Fixed-point arithmetic                                                  *)

Micro == 1000 * 1000

\* float('nan') as produced by an all-NaN rolling window
NaN == -1

Ok(v) == [exc |-> FALSE, val |-> v, msg |-> ""]
Raise(m) == [exc |-> TRUE, val |-> 0, msg |-> m]

RECURSIVE Pow10(_)
Pow10(k) == IF k = 0 THEN 1 ELSE 10 * Pow10(k - 1)

\* the first k decimal digits of r / d, for 0 <= r < d
RECURSIVE FracDigits(_, _, _)
FracDigits(r, d, k) ==
    IF k = 0 THEN 0
    ELSE ((r * 10) \div d) * Pow10(k - 1) + FracDigits((r * 10) % d, d, k - 1)

\* n / d as a fixed-point number: floor(n * 1e6 / d), for n >= 0, d > 0
FixDiv(n, d) == (n \div d) * Micro + FracDigits(n % d, d, 6)

\* sum(s[lo..hi]); halving keeps the evaluation shallow
RECURSIVE SumRange(_, _, _)
SumRange(s, lo, hi) ==
    IF lo > hi THEN 0
    ELSE IF lo = hi THEN s[lo]
    ELSE LET mid == (lo + hi) \div 2
         IN  SumRange(s, lo, mid) + SumRange(s, mid + 1, hi)

SumSeq(s) == SumRange(s, 1, Len(s))

Last(s, k) == IF Len(s) <= k THEN s ELSE SubSeq(s, Len(s) - k + 1, Len(s))
ButLast(s, k) == IF Len(s) <= k THEN <<>> ELSE SubSeq(s, 1, Len(s) - k)

\* Python round(x, nd) on a fixed-point x >= 0: to a multiple of `step`
\* micro-units, halves to the even multiple
RoundTo(x, step) ==
    LET q == x \div step
        r == x % step
    IN  IF 2 * r > step \/ (2 * r = step /\ q % 2 = 1)
        THEN (q + 1) * step ELSE q * step

Min(a, b) == IF b < a THEN b ELSE a
Max(a, b) == IF b > a THEN b ELSE a

\* Python min(cap, x) with a float x that may be NaN: min keeps its first
\* argument unless a later one compares smaller, and NaN never does
PyMinCap(cap, x) == IF x = NaN THEN cap ELSE Min(cap, x)

-----------------------------------------------------------------------------
(* Trades: the rows of trades_df                                           *)

Instruments == {"EURUSD", "GBPUSD"}
Sides == {"BUY", "SELL"}

Trade(d, t, i, s, q) ==
    [timestamp |-> [parseable |-> TRUE, date |-> d, time |-> t],
     instrument |-> i, side |-> s, quantity |-> q]

\* a row whose timestamp string pd.to_datetime cannot parse
BadTrade(i, s, q) ==
    [timestamp |-> [parseable |-> FALSE, date |-> 0, time |-> 0],
     instrument |-> i, side |-> s, quantity |-> q]

TsLeq(a, b) ==
    a.date < b.date \/ (a.date = b.date /\ a.time <= b.time)

IsSorted(df) ==
    \A i \in 1..(Len(df) - 1) : TsLeq(df[i].timestamp, df[i + 1].timestamp)

RECURSIVE InsertByTs(_, _)
InsertByTs(df, row) ==
    IF df = <<>> THEN <<row>>
    ELSE IF TsLeq(df[Len(df)].timestamp, row.timestamp) THEN Append(df, row)
    ELSE Append(InsertByTs(SubSeq(df, 1, Len(df) - 1), row), df[Len(df)])

RECURSIVE SortFrom(_, _)
SortFrom(acc, df) ==
    IF df = <<>> THEN acc ELSE SortFrom(InsertByTs(acc, Head(df)), Tail(df))

\* trades_df.sort_values('timestamp'); rows with equal timestamps keep
\* their input order
sort_values(df) == IF IsSorted(df) THEN df ELSE SortFrom(<<>>, df)

\* pd.to_datetime(trades_df['timestamp']): raises on an unparseable value
to_datetime(df) ==
    IF \E i \in 1..Len(df) : ~df[i].timestamp.parseable
    THEN Raise("Unknown datetime string format") ELSE Ok(df)

signed_qty(row) == IF row.side = "BUY" THEN row.quantity ELSE -row.quantity

Sign(x) == IF x > 0 THEN 1 ELSE IF x < 0 THEN -1 ELSE 0

\* the elements of a set of integers, ascending
SortedSet(S) ==
    [k \in 1..Cardinality(S) |->
        CHOOSE x \in S : Cardinality({y \in S : y < x}) = k - 1]

\* the distinct dates of the frame, ascending (groupby sorts its keys)
Dates(df) == SortedSet({df[i].timestamp.date : i \in 1..Len(df)})

RowsOn(df, d) == SelectSeq(df, LAMBDA r : r.timestamp.date = d)

SumQty(rows) == SumSeq([i \in 1..Len(rows) |-> rows[i].quantity])

SumSigned(rows) == SumSeq([i \in 1..Len(rows) |-> signed_qty(rows[i])])

\* trades_df.groupby(date).agg(quantity sum, instrument nunique)
daily_agg(df) ==
    LET ds == Dates(df)
    IN  [k \in 1..Len(ds) |->
            LET rows == RowsOn(df, ds[k])
            IN  [date |-> ds[k],
                 daily_volume |-> SumQty(rows),
                 instruments |->
                     Cardinality({rows[i].instrument : i \in 1..Len(rows)})]]

\* trades_df.groupby(date)['signed_qty'].sum()
daily_net_of(df) ==
    LET ds == Dates(df)
    IN  [k \in 1..Len(ds) |-> SumSigned(RowsOn(df, ds[k]))]

-----------------------------------------------------------------------------
(* _compute_daily_flips                                                    *)

\* trades_df['instrument'].unique(): in order of first appearance
unique_instruments(df) ==
    LET firsts == {i \in 1..Len(df) :
                      \A j \in 1..(i - 1) : df[j].instrument # df[i].instrument}
        order == SortedSet(firsts)
    IN  [k \in 1..Len(order) |-> df[order[k]].instrument]

\* the dates of the rows lo..hi where position_sign.diff() != 0, given the
\* cumulative position and its sign before row lo.  The diff of the first
\* row of the frame is NaN, and NaN != 0 is True: `first` marks that row.
RECURSIVE FlipDatesRange(_, _, _, _, _, _)
FlipDatesRange(rows, lo, hi, cum, prev_sign, first) ==
    IF lo > hi THEN <<>>
    ELSE IF lo = hi
    THEN IF first \/ Sign(cum + signed_qty(rows[lo])) # prev_sign
         THEN <<rows[lo].timestamp.date>> ELSE <<>>
    ELSE LET mid == (lo + hi) \div 2
             cum_mid == cum + SumRange([i \in 1..Len(rows) |-> signed_qty(rows[i])],
                                       lo, mid)
         IN  FlipDatesRange(rows, lo, mid, cum, prev_sign, first)
             \o FlipDatesRange(rows, mid + 1, hi, cum_mid, Sign(cum_mid), FALSE)

flip_dates(inst_trades) ==
    FlipDatesRange(inst_trades, 1, Len(inst_trades), 0, 0, TRUE)

\* the flip dates of every instrument, instrument after instrument
RECURSIVE FlipEvents(_, _)
FlipEvents(insts, df) ==
    IF insts = <<>> THEN <<>>
    ELSE LET inst_trades ==
                 sort_values(SelectSeq(df, LAMBDA r : r.instrument = Head(insts)))
         IN  flip_dates(inst_trades) \o FlipEvents(Tail(insts), df)

\* daily_flips[date_str] = daily_flips.get(date_str, 0) + 1 for each flip
\* date in turn: the dict, kept as the sequence of its items in insertion
\* order (a key is inserted at the first flip on its date)
dict_of_events(events) ==
    LET firsts == {i \in 1..Len(events) :
                      \A j \in 1..(i - 1) : events[j] # events[i]}
        order == SortedSet(firsts)
    IN  [k \in 1..Len(order) |->
            [date |-> events[order[k]],
             count |-> Cardinality({i \in 1..Len(events) :
                                       events[i] = events[order[k]]})]]

\* raises KeyError (sort_values('timestamp')) on a frame without the column
_compute_daily_flips(df, has_timestamp) ==
    IF ~has_timestamp THEN Raise("KeyError: 'timestamp'")
    ELSE Ok(dict_of_events(FlipEvents(unique_instruments(df), df)))

\* list(daily_flips.values())
dict_values(d) == [i \in 1..Len(d) |-> d[i].count]

-----------------------------------------------------------------------------
(* Score 1: _compute_pattern_instability                                   *)

SumSq(s) == SumSeq([i \in 1..Len(s) |-> s[i] * s[i]])

\* sample variance (ddof = 1) of the w values ending at position k
WindowVar(xs, k, w) ==
    LET win == SubSeq(xs, k - w + 1, k)
        sm == SumSeq(win)
    IN  FixDiv(w * SumSq(win) - sm * sm, w * (w - 1))

\* Series.rolling(w).var(): NaN until w values are seen, and always for w = 1
rolling_var(xs, w) ==
    [k \in 1..Len(xs) |-> IF k < w \/ w < 2 THEN NaN ELSE WindowVar(xs, k, w)]

\* Series.mean(): skips NaN; NaN when nothing is left
nanmean(s) ==
    LET kept == SelectSeq(s, LAMBDA v : v # NaN)
    IN  IF kept = <<>> THEN NaN ELSE SumSeq(kept) \div Len(kept)

\* variant: the ratio without the epsilon; 0.0 / 0.0 is NaN
var_ratio_no_epsilon(recent, baseline) ==
    IF recent = NaN \/ baseline = NaN \/ baseline = 0 THEN NaN
    ELSE FixDiv(recent, baseline)

\* recent / (baseline + 1e-6)
var_ratio(recent, baseline) ==
    IF recent = NaN \/ baseline = NaN THEN NaN ELSE FixDiv(recent, baseline + 1)

\* variant: the score without its min(0.30, ...) cap
_compute_pattern_instability_try_uncapped(df, has_timestamp, window_size) ==
    IF ~has_timestamp THEN Raise("KeyError: 'timestamp'")
    ELSE
    LET daily == daily_agg(df)
        volume_var == rolling_var([k \in 1..Len(daily) |-> daily[k].daily_volume],
                                  window_size)
        instr_var == rolling_var([k \in 1..Len(daily) |-> daily[k].instruments],
                                 window_size)
        vol_ratio == var_ratio(nanmean(Last(volume_var, 7)), nanmean(volume_var))
        instr_ratio == var_ratio(nanmean(Last(instr_var, 7)), nanmean(instr_var))
        variance_score ==
            IF vol_ratio = NaN \/ instr_ratio = NaN THEN NaN
            ELSE (vol_ratio + instr_ratio) \div 2
    IN  IF Len(daily) < 7 THEN Ok(50000)
        ELSE Ok(IF variance_score = NaN THEN 300000 ELSE variance_score \div 10)

_compute_pattern_instability_try(df, has_timestamp, window_size) ==
    IF ~has_timestamp THEN Raise("KeyError: 'timestamp'")
    ELSE
    LET daily == daily_agg(df)
        volume_var == rolling_var([k \in 1..Len(daily) |-> daily[k].daily_volume],
                                  window_size)
        instr_var == rolling_var([k \in 1..Len(daily) |-> daily[k].instruments],
                                 window_size)
        vol_ratio == var_ratio(nanmean(Last(volume_var, 7)), nanmean(volume_var))
        instr_ratio == var_ratio(nanmean(Last(instr_var, 7)), nanmean(instr_var))
        variance_score ==
            IF vol_ratio = NaN \/ instr_ratio = NaN THEN NaN
            ELSE (vol_ratio + instr_ratio) \div 2
    IN  IF Len(daily) < 7 THEN Ok(50000)
        ELSE Ok(PyMinCap(300000,
                         IF variance_score = NaN THEN NaN ELSE variance_score \div 10))

_compute_pattern_instability(df, has_timestamp, window_size) ==
    LET r == _compute_pattern_instability_try(df, has_timestamp, window_size)
    IN  IF r.exc THEN 50000 ELSE r.val

-----------------------------------------------------------------------------
(* Score 2: _detect_change_points                                          *)

\* the largest s in lo..hi with s * s <= v
RECURSIVE ISqrtIn(_, _, _)
ISqrtIn(lo, hi, v) ==
    IF lo >= hi THEN lo
    ELSE LET mid == (lo + hi + 1) \div 2
         IN  IF mid * mid <= v THEN ISqrtIn(mid, hi, v) ELSE ISqrtIn(lo, mid - 1, v)

\* Series.std() (ddof = 1) of integer counts, to three decimals
series_std(xs) ==
    LET n == Len(xs)
        sm == SumSeq(xs)
    IN  1000 * ISqrtIn(0, 46340, FixDiv(n * SumSq(xs) - sm * sm, n * (n - 1)))

series_mean(xs) == FixDiv(SumSeq(xs), Len(xs))

\* one pass of the loop body of lines 250-257 at index i (from 0); st holds
\* cusum_pos, cusum_neg and the index at which the loop broke (-1: running)
CusumStep(st, xs, i, mean_flip, std_flip) ==
    IF st.flagged >= 0 THEN st
    ELSE LET x == xs[i + 1] * Micro
             cp == Max(0, st.cusum_pos + (x - mean_flip - std_flip \div 2))
             cn == Min(0, st.cusum_neg + (x - mean_flip + std_flip \div 2))
         IN  [cusum_pos |-> cp, cusum_neg |-> cn,
              flagged |-> IF cp > 3 * std_flip \/ -cn > 3 * std_flip THEN i ELSE -1]

\* the loop over indices lo..hi, in order, from state st
RECURSIVE CusumLoop(_, _, _, _, _, _)
CusumLoop(st, xs, lo, hi, mean_flip, std_flip) ==
    IF lo > hi THEN st
    ELSE IF lo = hi THEN CusumStep(st, xs, lo, mean_flip, std_flip)
    ELSE LET mid == (lo + hi) \div 2
             half == CusumLoop(st, xs, lo, mid, mean_flip, std_flip)
         IN  CusumLoop(half, xs, mid + 1, hi, mean_flip, std_flip)

\* the index (from 0) of the first flagged day, or Len(xs) when none is
CusumScan(xs, mean_flip, std_flip) ==
    LET st == CusumLoop([cusum_pos |-> 0, cusum_neg |-> 0, flagged |-> -1],
                        xs, 0, Len(xs) - 1, mean_flip, std_flip)
    IN  IF st.flagged >= 0 THEN st.flagged ELSE Len(xs)

\* lines 236-274 on a numeric flip series
cusum_score(xs) ==
    LET mean_flip == series_mean(xs)
        std_flip == series_std(xs)
        first_flagged == CusumScan(xs, mean_flip, std_flip)
        change_detected == first_flagged < Len(xs)
        days_since_change == Len(xs) - first_flagged
    IN  IF std_flip < 1 THEN 50000
        ELSE IF ~change_detected THEN 50000
        ELSE IF days_since_change <= 14 THEN 250000
        ELSE IF days_since_change <= 30 THEN 150000
        ELSE IF days_since_change <= 60 THEN 100000
        ELSE 50000

\* pd.Series(daily_flips.values): daily_flips is a dict, so .values (not
\* called) is its bound method, and the Series holds that one object
series_of_values_attr(daily_flips) == [numeric |-> FALSE, data |-> <<>>]

_detect_change_points_try(df, has_timestamp) ==
    IF ~has_timestamp THEN Ok(50000)
    ELSE LET daily_flips == _compute_daily_flips(df, has_timestamp).val
             flip_series == series_of_values_attr(daily_flips)
         IN  IF Len(daily_flips) < 20 THEN Ok(50000)
             ELSE IF ~flip_series.numeric
                  THEN Raise("TypeError: Could not convert to numeric")
                  ELSE Ok(cusum_score(flip_series.data))

\* variant: a failed scan contributes nothing instead of the nominal 0.05
_detect_change_points_silent(df, has_timestamp) ==
    LET r == _detect_change_points_try(df, has_timestamp)
    IN  IF r.exc THEN 0 ELSE r.val

_detect_change_points(df, has_timestamp) ==
    LET r == _detect_change_points_try(df, has_timestamp)
    IN  IF r.exc THEN 50000 ELSE r.val

-----------------------------------------------------------------------------
(* Score 3: _compute_momentum_shifts                                       *)

\* variant: the NaN diff of the first day is not counted as a change
sign_changes_of_skip_first(daily_net) ==
    Cardinality({k \in 2..Len(daily_net) :
                    Sign(daily_net[k]) # Sign(daily_net[k - 1])})

\* (signs.diff() != 0).sum(): the first diff is NaN and counts
sign_changes_of(daily_net) ==
    Cardinality({k \in 1..Len(daily_net) :
                    k = 1 \/ Sign(daily_net[k]) # Sign(daily_net[k - 1])})

_compute_momentum_shifts_try(df, has_timestamp) ==
    IF ~has_timestamp THEN Raise("KeyError: 'timestamp'")
    ELSE LET daily_net == daily_net_of(df)
             sign_changes == sign_changes_of(daily_net)
         IN  IF Len(daily_net) < 14 THEN Ok(50000)
             ELSE Ok(Min(200000, (sign_changes * 400000) \div Len(daily_net)))

_compute_momentum_shifts(df, has_timestamp) ==
    LET r == _compute_momentum_shifts_try(df, has_timestamp)
    IN  IF r.exc THEN 50000 ELSE r.val

-----------------------------------------------------------------------------
(* Score 4: _compute_flip_acceleration                                     *)

\* lines 337-358; acceleration = (recent sum / 7) / (baseline sum / m) is
\* compared with 1.5, 1.2 and 1.0 by cross-multiplication
\* variant: a ratio exactly on a threshold falls in the upper tier
flip_acceleration_of_inclusive(values) ==
    LET recent_flips == Last(values, 7)
        baseline_flips == ButLast(values, 7)
        rs == SumSeq(recent_flips) * Len(baseline_flips)
        bs == SumSeq(baseline_flips) * Len(recent_flips)
    IN  IF SumSeq(baseline_flips) = 0 THEN 50000
        ELSE IF 2 * rs >= 3 * bs THEN 150000
        ELSE IF 5 * rs >= 6 * bs THEN 100000
        ELSE IF rs >= bs THEN 50000
        ELSE 20000

flip_acceleration_of(values) ==
    LET recent_flips == Last(values, 7)
        baseline_flips == ButLast(values, 7)
        rs == SumSeq(recent_flips) * Len(baseline_flips)
        bs == SumSeq(baseline_flips) * Len(recent_flips)
    IN  IF SumSeq(baseline_flips) = 0 THEN 50000
        ELSE IF 2 * rs > 3 * bs THEN 150000
        ELSE IF 5 * rs > 6 * bs THEN 100000
        ELSE IF rs > bs THEN 50000
        ELSE 20000

_compute_flip_acceleration_try(df, has_timestamp) ==
    LET r == _compute_daily_flips(df, has_timestamp)
    IN  IF r.exc THEN r
        ELSE IF Len(r.val) < 21 THEN Ok(50000)
        ELSE Ok(flip_acceleration_of(dict_values(r.val)))

_compute_flip_acceleration(df, has_timestamp) ==
    LET r == _compute_flip_acceleration_try(df, has_timestamp)
    IN  IF r.exc THEN 50000 ELSE r.val

-----------------------------------------------------------------------------
(* Score 5: _compute_feature_drift                                         *)
(* A features dict is a function from its keys; momentum_beta_20d and      *)
(* aggressiveness are in hundredths, holding_period_avg in days.           *)

Abs(x) == IF x < 0 THEN -x ELSE x

\* a feature whose value is None instead of a number
NoneValue == -1000000

\* abs(None) and None < 2 raise TypeError: the lookups of lines 387-402 fail
\* on the first of the three features that is present without a number
feature_drift_raises(features) ==
    \E k \in DOMAIN features : features[k] = NoneValue

\* variant: a value on a range boundary counts as outside the range
_compute_feature_drift_inclusive(features) ==
    LET has(k) == k \in DOMAIN features
        beta == IF has("momentum_beta_20d")
                   /\ (Abs(features["momentum_beta_20d"]) <= 20
                       \/ Abs(features["momentum_beta_20d"]) >= 90)
                THEN 30000 ELSE 0
        hold == IF has("holding_period_avg")
                   /\ (features["holding_period_avg"] <= 2
                       \/ features["holding_period_avg"] >= 60)
                THEN 30000 ELSE 0
        agg == IF has("aggressiveness")
                  /\ (features["aggressiveness"] <= 20
                      \/ features["aggressiveness"] >= 90)
               THEN 40000 ELSE 0
    IN  IF DOMAIN features = {} THEN 0
        ELSE IF feature_drift_raises(features) THEN 0
        ELSE Min(100000, beta + hold + agg)

_compute_feature_drift(features) ==
    LET has(k) == k \in DOMAIN features
        beta == IF has("momentum_beta_20d")
                   /\ (Abs(features["momentum_beta_20d"]) < 20
                       \/ Abs(features["momentum_beta_20d"]) > 90)
                THEN 30000 ELSE 0
        hold == IF has("holding_period_avg")
                   /\ (features["holding_period_avg"] < 2
                       \/ features["holding_period_avg"] > 60)
                THEN 30000 ELSE 0
        agg == IF has("aggressiveness")
                  /\ (features["aggressiveness"] < 20
                      \/ features["aggressiveness"] > 90)
               THEN 40000 ELSE 0
    IN  IF DOMAIN features = {} THEN 0
        ELSE IF feature_drift_raises(features) THEN 0
        ELSE Min(100000, beta + hold + agg)

-----------------------------------------------------------------------------
(* calculate                                                               *)
(* A result is the returned dict.  The reasoning string is kept as the     *)
(* sequence of its parts: the assessment and then the factors (without     *)
(* their formatted scores), or the baseline notice and then its reason.    *)

ResultKeys ==
    {"switch_prob", "pattern_instability", "change_point", "momentum_shift",
     "flip_acceleration", "feature_drift", "reasoning"}

\* variant: the baseline result with its probability clamped like the others
_get_baseline_result_clamped(slf, reason) ==
    [switch_prob |-> Max(150000, Min(850000, slf.baseline_prob)),
     pattern_instability |-> 0,
     change_point |-> 0,
     momentum_shift |-> 0,
     flip_acceleration |-> 0,
     feature_drift |-> 0,
     reasoning |-> <<"Using baseline probability">> \o reason]

_get_baseline_result(slf, reason) ==
    [switch_prob |-> slf.baseline_prob,
     pattern_instability |-> 0,
     change_point |-> 0,
     momentum_shift |-> 0,
     flip_acceleration |-> 0,
     feature_drift |-> 0,
     reasoning |-> <<"Using baseline probability">> \o reason]

\* variant: the assessment is taken from the probability as it is returned,
\* rounded to two decimals
_build_reasoning_of_rounded(pattern, changepoint, momentum, flip, drift, final) ==
    LET reasons ==
            (IF pattern > 150000 THEN <<"High pattern instability">>
             ELSE IF pattern > 100000 THEN <<"Moderate pattern variance">>
             ELSE <<>>)
            \o (IF changepoint > 150000 THEN <<"Recent regime change detected">>
                ELSE IF changepoint > 100000 THEN <<"Possible regime shift">>
                ELSE <<>>)
            \o (IF momentum > 100000 THEN <<"Frequent direction changes">> ELSE <<>>)
            \o (IF flip > 100000 THEN <<"Accelerating position flips">> ELSE <<>>)
            \o (IF drift > 50000 THEN <<"Significant feature drift">> ELSE <<>>)
        assessment ==
            IF RoundTo(final, 10000) > 600000 THEN "HIGH risk of strategy switch"
            ELSE IF RoundTo(final, 10000) > 400000 THEN "MODERATE risk of strategy switch"
            ELSE "LOW risk of strategy switch"
    IN  <<assessment>>
        \o (IF reasons = <<>> THEN <<"Stable behavior patterns">> ELSE reasons)

_build_reasoning(pattern, changepoint, momentum, flip, drift, final) ==
    LET reasons ==
            (IF pattern > 150000 THEN <<"High pattern instability">>
             ELSE IF pattern > 100000 THEN <<"Moderate pattern variance">>
             ELSE <<>>)
            \o (IF changepoint > 150000 THEN <<"Recent regime change detected">>
                ELSE IF changepoint > 100000 THEN <<"Possible regime shift">>
                ELSE <<>>)
            \o (IF momentum > 100000 THEN <<"Frequent direction changes">> ELSE <<>>)
            \o (IF flip > 100000 THEN <<"Accelerating position flips">> ELSE <<>>)
            \o (IF drift > 50000 THEN <<"Significant feature drift">> ELSE <<>>)
        assessment ==
            IF final > 600000 THEN "HIGH risk of strategy switch"
            ELSE IF final > 400000 THEN "MODERATE risk of strategy switch"
            ELSE "LOW risk of strategy switch"
    IN  <<assessment>>
        \o (IF reasons = <<>> THEN <<"Stable behavior patterns">> ELSE reasons)

\* variant: the sum is not clamped to [0.15, 0.85]
combine_scores_unclamped(slf, pattern_score, changepoint_score, momentum_score, flip_score, drift_score) ==
    LET total == slf.baseline_prob
                 + (pattern_score + changepoint_score + momentum_score
                    + flip_score + drift_score)
    IN  [switch_prob |-> RoundTo(total, 10000),
         pattern_instability |-> RoundTo(pattern_score, 1000),
         change_point |-> RoundTo(changepoint_score, 1000),
         momentum_shift |-> RoundTo(momentum_score, 1000),
         flip_acceleration |-> RoundTo(flip_score, 1000),
         feature_drift |-> RoundTo(drift_score, 1000),
         reasoning |-> _build_reasoning(pattern_score, changepoint_score,
                                       momentum_score, flip_score, drift_score,
                                       Max(150000, Min(850000, total)))]

\* lines 124-156: combine, clamp, explain, round
combine_scores(slf, pattern_score, changepoint_score, momentum_score, flip_score, drift_score) ==
    LET total == slf.baseline_prob
                 + (pattern_score + changepoint_score + momentum_score
                    + flip_score + drift_score)
        switch_prob == Max(150000, Min(850000, total))
    IN  [switch_prob |-> RoundTo(switch_prob, 10000),
         pattern_instability |-> RoundTo(pattern_score, 1000),
         change_point |-> RoundTo(changepoint_score, 1000),
         momentum_shift |-> RoundTo(momentum_score, 1000),
         flip_acceleration |-> RoundTo(flip_score, 1000),
         feature_drift |-> RoundTo(drift_score, 1000),
         reasoning |-> _build_reasoning(pattern_score, changepoint_score,
                                       momentum_score, flip_score, drift_score,
                                       switch_prob)]

\* variant: fewer than two trades short-circuit to the baseline result
calculate_try_min_trades(slf, a) ==
    IF Len(a.trades) < 2
    THEN Ok(_get_baseline_result(slf, <<"Insufficient data">>))
    ELSE LET dt == IF a.has_timestamp THEN to_datetime(a.trades) ELSE Ok(a.trades)
             df == IF a.has_timestamp THEN sort_values(dt.val) ELSE dt.val
             truthy == ~a.features.is_none /\ DOMAIN a.features.dict # {}
         IN  IF dt.exc THEN dt
             ELSE Ok(combine_scores(
                     slf,
                     _compute_pattern_instability(df, a.has_timestamp, slf.window_size),
                     _detect_change_points(df, a.has_timestamp),
                     _compute_momentum_shifts(df, a.has_timestamp),
                     _compute_flip_acceleration(df, a.has_timestamp),
                     IF truthy THEN _compute_feature_drift(a.features.dict) ELSE 0))

\* the try block of calculate, lines 97-156
calculate_try(slf, a) ==
    IF a.trades = <<>>
    THEN Ok(_get_baseline_result(slf, <<"No trading history">>))
    ELSE LET dt == IF a.has_timestamp THEN to_datetime(a.trades) ELSE Ok(a.trades)
             df == IF a.has_timestamp THEN sort_values(dt.val) ELSE dt.val
             truthy == ~a.features.is_none /\ DOMAIN a.features.dict # {}
         IN  IF dt.exc THEN dt
             ELSE Ok(combine_scores(
                     slf,
                     _compute_pattern_instability(df, a.has_timestamp, slf.window_size),
                     _detect_change_points(df, a.has_timestamp),
                     _compute_momentum_shifts(df, a.has_timestamp),
                     _compute_flip_acceleration(df, a.has_timestamp),
                     IF truthy THEN _compute_feature_drift(a.features.dict) ELSE 0))

\* variant: calculate without its except Exception handler
calculate_unguarded(slf, a) == calculate_try(slf, a)

\* variant: no handler at all, neither in calculate nor in the scorers: the
\* first exception of a scorer leaves the call
calculate_unhandled(slf, a) ==
    LET r == calculate_try(slf, a)
        df == IF a.has_timestamp THEN sort_values(a.trades) ELSE a.trades
        p == _compute_pattern_instability_try(df, a.has_timestamp, slf.window_size)
        c == _detect_change_points_try(df, a.has_timestamp)
        m == _compute_momentum_shifts_try(df, a.has_timestamp)
        f == _compute_flip_acceleration_try(df, a.has_timestamp)
    IN  IF r.exc \/ a.trades = <<>> THEN r
        ELSE IF p.exc THEN p
        ELSE IF c.exc THEN c
        ELSE IF m.exc THEN m
        ELSE IF f.exc THEN f
        ELSE IF ~a.features.is_none /\ feature_drift_raises(a.features.dict)
        THEN Raise("TypeError: bad operand type for abs(): 'NoneType'")
        ELSE r

\* calculate: the try block and its except Exception handler, lines 158-160
calculate(slf, a) ==
    LET r == calculate_try(slf, a)
    IN  IF r.exc THEN Ok(_get_baseline_result(slf, <<"Error", r.msg>>)) ELSE r

-----------------------------------------------------------------------------
(* The calls the model makes                                               *)

\* the longest enumerated trade history
MaxTrades == 2

SmallDates == {0, 1}
Quantities == {1, 2}

Calculator(l, w, b) == [lookback_days |-> l, window_size |-> w, baseline_prob |-> b]

\* SwitchProbabilityCalculator(lookback_days, window_size, baseline_prob):
\* the defaults, a low and a high baseline, a short rolling window, and a
\* baseline that is not a whole number of hundredths
Calculators ==
    {Calculator(90, 14, 300000), Calculator(90, 14, 50000),
     Calculator(90, 14, 800000), Calculator(30, 3, 300000),
     Calculator(90, 14, 300500)}

\* every history of 1..MaxTrades rows, in any date order; the time of day
\* of a row is its position in the input
SmallHistories ==
    UNION {
        {[i \in 1..n |-> Trade(c[i].date, i, c[i].instrument, c[i].side, c[i].quantity)] :
            c \in [1..n -> [date : SmallDates, instrument : Instruments,
                            side : Sides, quantity : Quantities]]}
        : n \in 1..MaxTrades}

\* one BUY of q a day in one instrument, for days 1..D
Flat(D, q) == [d \in 1..D |-> Trade(d, 0, "EURUSD", "BUY", q)]

\* D days in one instrument; lo trades a day, then hi trades a day for the
\* last K days.  The first trade buys 1, and every later one trades 2
\* against the position, so that each trade reverses it.
Step(D, K, lo, hi) ==
    LET early == lo * (D - K)
        total == early + hi * K
    IN  [g \in 1..total |->
            LET d == IF g <= early THEN (g - 1) \div lo + 1
                     ELSE (D - K) + (g - early - 1) \div hi + 1
                t == IF g <= early THEN (g - 1) % lo ELSE (g - early - 1) % hi
            IN  Trade(d, t, "EURUSD",
                      IF g % 2 = 1 THEN "BUY" ELSE "SELL",
                      IF g = 1 THEN 1 ELSE 2)]

DayCounts == {6, 7, 13, 14, 19, 20, 21, 30, 90}

ScenarioHistories ==
    {Flat(D, q) : D \in DayCounts, q \in Quantities}
    \cup {Step(D, 0, 1, 1) : D \in DayCounts}
    \cup {Step(p[1], p[2], r[1], r[2]) :
            p \in {<<90, 5>>, <<90, 20>>, <<90, 40>>, <<90, 70>>, <<30, 5>>,
                   <<21, 7>>, <<20, 3>>},
            r \in {<<2, 10>>, <<1, 3>>, <<3, 1>>, <<2, 3>>}}
    \cup {Step(21, 7, 5, 6), Step(21, 7, 10, 11), Step(28, 7, 3, 4)}

\* EURUSD trades once a day for D1 days, GBPUSD once a day for the next D2
\* days, and EURUSD again hi times a day for K more days.  The first trade
\* of an instrument buys 1 and every later one trades 2 against its
\* position.
TwoInstruments(D1, D2, K, hi) ==
    [g \in 1..(D1 + D2 + K * hi) |->
        LET j == g - D1 - D2 - 1
            d == IF g <= D1 + D2 THEN g ELSE D1 + D2 + j \div hi + 1
            t == IF g <= D1 + D2 THEN 0 ELSE j % hi
            inst == IF g > D1 /\ g <= D1 + D2 THEN "GBPUSD" ELSE "EURUSD"
            k == IF g <= D1 THEN g ELSE IF g <= D1 + D2 THEN g - D1 ELSE D1 + j + 1
        IN  Trade(d, t, inst,
                  IF k % 2 = 1 THEN "BUY" ELSE "SELL",
                  IF k = 1 THEN 1 ELSE 2)]

\* D days on which EURUSD is traded once, reversing its position (the
\* first trade buys 1, every later one trades 2 against the position), and
\* GBPUSD is bought 10 at a time: the daily net is a purchase every day
Hedged(D) ==
    [g \in 1..(2 * D) |->
        LET d == (g + 1) \div 2
        IN  IF g % 2 = 1
            THEN Trade(d, 0, "EURUSD",
                       IF d % 2 = 1 THEN "BUY" ELSE "SELL",
                       IF d = 1 THEN 1 ELSE 2)
            ELSE Trade(d, 1, "GBPUSD", "BUY", 10)]

\* clients trading two instruments, in turn or side by side
MultiInstrumentHistories ==
    {TwoInstruments(1, 1, 1, 1), TwoInstruments(14, 7, 7, 3),
     TwoInstruments(7, 7, 7, 1), TwoInstruments(21, 7, 0, 1),
     Hedged(21), Hedged(90)}

\* histories with a timestamp that cannot be parsed
MalformedHistories ==
    {<<BadTrade(i, s, 1)>> : i \in Instruments, s \in Sides}
    \cup {<<Trade(0, 1, "EURUSD", "BUY", 1), BadTrade("EURUSD", s, 2)>> : s \in Sides}
    \cup {Append(Flat(D, 1), BadTrade("EURUSD", "SELL", 1)) : D \in {20, 21}}

FeatureKeys == {"momentum_beta_20d", "holding_period_avg", "aggressiveness"}

FeatureValues(k) ==
    IF k = "momentum_beta_20d" THEN {-95, 10, 20, 50, 90, 95, NoneValue}
    ELSE IF k = "holding_period_avg" THEN {1, 2, 30, 60, 61, NoneValue}
    ELSE {10, 20, 50, 90, 95, NoneValue}

FeatureDicts ==
    UNION {{f \in [K -> UNION {FeatureValues(k) : k \in FeatureKeys}] :
                \A k \in K : f[k] \in FeatureValues(k)}
           : K \in SUBSET FeatureKeys}

SomeFeatureDicts ==
    {<<>>,
     [k \in {"momentum_beta_20d"} |-> 95],
     [k \in FeatureKeys |-> IF k = "holding_period_avg" THEN 61 ELSE 95],
     [k \in FeatureKeys |-> IF k = "holding_period_avg" THEN NoneValue ELSE 95]}

NoFeatures == [is_none |-> TRUE, dict |-> <<>>]
Features(f) == [is_none |-> FALSE, dict |-> f]

PositionFrames == {<<>>, <<[instrument |-> "EURUSD", net_position |-> 1]>>}

MkArgs(t, h, f, p) ==
    [client_id |-> "ACME_FX_023", trades |-> t, has_timestamp |-> h,
     features |-> f, positions |-> p]

Inputs ==
    {MkArgs(t, TRUE, NoFeatures, <<>>) :
        t \in {<<>>} \cup SmallHistories \cup ScenarioHistories
             \cup MultiInstrumentHistories \cup MalformedHistories}
    \cup {MkArgs(t, FALSE, NoFeatures, <<>>) :
            t \in {<<Trade(0, 1, "EURUSD", "BUY", 1)>>, Flat(21, 1), Step(30, 5, 2, 10)}}
    \cup {MkArgs(<<Trade(0, 1, "EURUSD", "BUY", 1)>>, TRUE, Features(f), <<>>) :
            f \in FeatureDicts}
    \cup {MkArgs(t, TRUE, Features(f), p) :
            t \in {<<>>, Flat(14, 1), Flat(90, 1), Step(21, 7, 2, 10),
                   Step(90, 5, 2, 10)},
            f \in SomeFeatureDicts, p \in PositionFrames}

-----------------------------------------------------------------------------
(* The state machine: a caller makes calls on one calculator               *)

NoArgs == MkArgs(<<>>, TRUE, NoFeatures, <<>>)
NoRet == Raise("")

\* the state of the parts of the system that a specification leaves idle
IdleThreads ==
    /\ shared = <<>>
    /\ orig = <<>>
    /\ th = <<>>

IdleQueue ==
    /\ queue = <<>>
    /\ qth = <<>>
    /\ now = 0
    /\ trace = <<>>

IdleService == svc = <<>>

IdleStream == sse = <<>>

Init ==
    /\ self \in Calculators
    /\ pc = "idle"
    /\ args = NoArgs
    /\ ret = NoRet
    /\ IdleThreads
    /\ IdleQueue
    /\ IdleService
    /\ IdleStream

\* the caller invokes calculate(client_id, trades_df, positions_df, features)
Call(a) ==
    /\ pc = "idle"
    /\ pc' = "calling"
    /\ args' = a
    /\ UNCHANGED <<self, ret>>
    /\ UNCHANGED <<thread_vars, queue_vars, service_vars, stream_vars>>

\* calculate runs to its return
Calculate ==
    /\ pc = "calling"
    /\ ret' = calculate(self, args)
    /\ pc' = IF ret'.exc THEN "raised" ELSE "returned"
    /\ UNCHANGED <<self, args>>
    /\ UNCHANGED <<thread_vars, queue_vars, service_vars, stream_vars>>

\* the caller takes the outcome
Done ==
    /\ pc \in {"returned", "raised"}
    /\ pc' = "idle"
    /\ args' = NoArgs
    /\ ret' = NoRet
    /\ UNCHANGED self
    /\ UNCHANGED <<thread_vars, queue_vars, service_vars, stream_vars>>

Next ==
    \/ \E a \in Inputs : Call(a)
    \/ Calculate
    \/ Done

Spec == Init /\ [][Next]_vars

-----------------------------------------------------------------------------
(* Properties                                                              *)

Returned == pc = "returned"
Finished == pc \in {"returned", "raised"}

\* the probability range the calculator documents: [0.15, 0.85]
InRange(p) == 150000 <= p /\ p <= 850000

ComponentsAre(r, pattern, changepoint, momentum, flip, drift) ==
    /\ r.pattern_instability = pattern
    /\ r.change_point = changepoint
    /\ r.momentum_shift = momentum
    /\ r.flip_acceleration = flip
    /\ r.feature_drift = drift

\* every timestamp of the call's frame can be parsed
Parseable(a) == \A i \in 1..Len(a.trades) : a.trades[i].timestamp.parseable

\* C1: every result of calculate, the short-circuit results included, has
\* switch_prob within [0.15, 0.85], for every configured baseline_prob.
C1_SwitchProbInRange == Returned => InRange(ret.val.switch_prob)

\* C2: with an empty trade history the result has switch_prob equal to the
\* configured baseline_prob and all five component scores 0.0, whatever
\* features are supplied.
C2_EmptyHistoryIsBaseline ==
    (Returned /\ args.trades = <<>>) =>
        /\ ret.val.switch_prob = self.baseline_prob
        /\ ComponentsAre(ret.val, 0, 0, 0, 0, 0)

\* an empty history with a feature set that would score drift, on a
\* calculator whose baseline lies outside the clamp range
C2_Witness ==
    /\ Returned
    /\ args.trades = <<>>
    /\ ~args.features.is_none
    /\ _compute_feature_drift(args.features.dict) > 0
    /\ ~InRange(self.baseline_prob)

\* C3: in every result each component score is non-negative and at most its
\* documented maximum (0.30, 0.25, 0.20, 0.15, 0.10), also when a scorer
\* falls back or its statistic is undefined.
C3_ComponentsBounded ==
    Returned =>
        /\ ret.val.pattern_instability \in 0..300000
        /\ ret.val.change_point \in 0..250000
        /\ ret.val.momentum_shift \in 0..200000
        /\ ret.val.flip_acceleration \in 0..150000
        /\ ret.val.feature_drift \in 0..100000

\* a result in which the pattern score met its cap from a defined variance
\* ratio, the change-point scorer fell back on its exception, and momentum
\* and feature drift met their caps too
C3_Witness ==
    /\ Returned
    /\ args.has_timestamp
    /\ Len(daily_agg(args.trades)) >= self.window_size
    /\ ret.val.pattern_instability = 300000
    /\ _detect_change_points_try(args.trades, TRUE).exc
    /\ ret.val.flip_acceleration = 150000
    /\ ret.val.feature_drift = 100000

\* the dict is what the input contract asks for: a timestamp column whose
\* values all parse
StructurallyValid(a) == a.has_timestamp /\ Parseable(a)

WellFormed(r) ==
    /\ DOMAIN r = ResultKeys
    /\ r.switch_prob \in Nat
    /\ r.pattern_instability \in Nat
    /\ r.change_point \in Nat
    /\ r.momentum_shift \in Nat
    /\ r.flip_acceleration \in Nat
    /\ r.feature_drift \in Nat
    /\ Len(r.reasoning) >= 2

\* C5: for any structurally valid input, however sparse or degraded,
\* calculate does not raise and returns a well-formed result: switch_prob,
\* the five component scores and a reasoning string.
C5_ValidInputReturnsWellFormed ==
    (Finished /\ StructurallyValid(args)) =>
        /\ Returned
        /\ WellFormed(ret.val)

\* a valid history on which a scorer raised inside (the change-point
\* scorer, on at least 20 flip days) and the call still returned
C5_Witness ==
    /\ Returned
    /\ StructurallyValid(args)
    /\ args.trades # <<>>
    /\ args.features.is_none
    /\ _detect_change_points_try(sort_values(args.trades), TRUE).exc
    /\ WellFormed(ret.val)

\* a non-empty frame with a timestamp that cannot be parsed
MalformedTimestamps(a) == a.has_timestamp /\ a.trades # <<>> /\ ~Parseable(a)

\* C6: when the timestamps of the trade sequence cannot be parsed, calculate
\* returns the baseline result: switch_prob equal to the configured
\* baseline, all five component scores 0.0, a reasoning that names the
\* cause; no exception reaches the caller.
C6_MalformedGivesBaseline ==
    (Finished /\ MalformedTimestamps(args)) =>
        /\ Returned
        /\ ret.val.switch_prob = self.baseline_prob
        /\ ComponentsAre(ret.val, 0, 0, 0, 0, 0)
        /\ ret.val.reasoning =
               <<"Using baseline probability", "Error", to_datetime(args.trades).msg>>

\* a malformed row after twenty good days, on a calculator whose baseline
\* is not the default
C6_Witness ==
    /\ Returned
    /\ MalformedTimestamps(args)
    /\ Len(args.trades) > 20
    /\ self.baseline_prob # 300000
    /\ ret.val.reasoning[3] = "Unknown datetime string format"

\* C7 as claimed: an input-contract violation (malformed timestamps) makes
\* calculate fail the call, the failure reaching the caller.
C7_ViolationFailsCall ==
    (Finished /\ MalformedTimestamps(args)) => pc = "raised"

\* C7 as amended: no input makes calculate fail.  Unparseable timestamps
\* give the baseline result, and a frame without the timestamp column gives
\* a normal result in which the four trade-based scorers took their 0.05
\* fallback.
C7_EveryCallReturns ==
    /\ pc # "raised"
    /\ (Returned /\ MalformedTimestamps(args)) =>
           ret.val.reasoning[1] = "Using baseline probability"
    /\ (Returned /\ ~args.has_timestamp /\ args.trades # <<>>) =>
           /\ ComponentsAre(ret.val, 50000, 50000, 50000, 50000, 0)
           /\ ret.val.reasoning[1] # "Using baseline probability"

\* a frame of thirty days without a timestamp column, returned
C7_Witness ==
    /\ Returned
    /\ ~args.has_timestamp
    /\ Len(args.trades) >= 30

\* what the code says about missing data in a reasoning string
InsufficientDataNotes == {"No trading history", "Insufficient data"}

HasInsufficiencyNote(r) ==
    \E i \in 1..Len(r.reasoning) : r.reasoning[i] \in InsufficientDataNotes

SingleTrade(a) == StructurallyValid(a) /\ Len(a.trades) = 1

Clamp(p) == Max(150000, Min(850000, p))

\* C8 as claimed: a history of exactly one trade gives switch_prob equal to
\* the baseline and a reasoning with an insufficient-data note.
C8_SingleTradeIsBaseline ==
    (Returned /\ SingleTrade(args)) =>
        /\ ret.val.switch_prob = self.baseline_prob
        /\ HasInsufficiencyNote(ret.val)

\* C8 as amended: a history of exactly one trade is scored like any other:
\* each of the four trade-based scorers returns its 0.05 fallback, so
\* switch_prob is baseline + 0.20 + feature_drift, clamped to [0.15, 0.85]
\* and rounded to two decimals (0.50 with the default configuration and no
\* features), and the reasoning carries a risk label and no
\* insufficient-data note.
C8_SingleTradeFallbacks ==
    (Returned /\ SingleTrade(args)) =>
        /\ ret.val.pattern_instability = 50000
        /\ ret.val.change_point = 50000
        /\ ret.val.momentum_shift = 50000
        /\ ret.val.flip_acceleration = 50000
        /\ ret.val.switch_prob =
               RoundTo(Clamp(self.baseline_prob + 200000 + ret.val.feature_drift),
                       10000)
        /\ ((self.baseline_prob = 300000 /\ args.features.is_none) =>
               /\ ret.val.switch_prob = 500000
               /\ ret.val.reasoning = <<"MODERATE risk of strategy switch",
                                        "Stable behavior patterns">>)
        /\ ~HasInsufficiencyNote(ret.val)

\* one trade, default configuration, no features
C8_Witness ==
    /\ Returned
    /\ SingleTrade(args)
    /\ self = Calculator(90, 14, 300000)
    /\ args.features.is_none
    /\ ret.val.switch_prob = 500000

\* the daily flip counts the scorers of this call read
FlipSeries(a) == dict_values(_compute_daily_flips(sort_values(a.trades), TRUE).val)

\* the flip counts are 2 a day and then 10 a day for the last 5 of 90 days
IsStep90(xs) ==
    /\ Len(xs) = 90
    /\ \A k \in 1..90 : xs[k] = IF k > 85 THEN 10 ELSE 2

\* C9: on a 90-day flip series flat at 2 and then 10 for the last 5 days
\* change_point is 0.25 and switch_prob exceeds baseline + 0.20; and
\* whenever the CUSUM first flags a day within the last 14 days of a series
\* of at least 20 days, change_point is 0.25.
C9_RecentBreakScoresTopTier ==
    (Returned /\ StructurallyValid(args) /\ args.trades # <<>>) =>
        LET xs == FlipSeries(args)
        IN  /\ IsStep90(xs) =>
                /\ ret.val.change_point = 250000
                /\ ret.val.switch_prob > self.baseline_prob + 200000
            /\ (Len(xs) >= 20 /\ cusum_score(xs) = 250000) =>
                ret.val.change_point = 250000

\* a perfectly flat 90-day history: one BUY of the same size every day
IsFlat90(a) == \E q \in Quantities : a.trades = Flat(90, q)

Diff(a, b) == IF a > b THEN a - b ELSE b - a

\* C10 as claimed: on a perfectly flat 90-day history every component is at
\* or near its minimum and switch_prob is within 0.05 of the baseline.
C10_FlatWithinFiveHundredths ==
    (Returned /\ StructurallyValid(args) /\ IsFlat90(args)) =>
        Diff(ret.val.switch_prob, self.baseline_prob) <= 50000

\* C10 as amended: on a perfectly flat 90-day history pattern_instability
\* is 0, change_point and flip_acceleration are their 0.05 fallbacks and
\* momentum_shift is 0.4 / 90 (the first day counts as one sign change,
\* reported as 0.004), so without feature drift switch_prob is
\* baseline + 0.05 + 0.05 + 0.4 / 90, clamped to [0.15, 0.85] and rounded to
\* two decimals: 0.40 for the default baseline 0.30, that is 0.10 above it.
C10_FlatAddsTenHundredths ==
    (Returned /\ StructurallyValid(args) /\ IsFlat90(args)) =>
        /\ ret.val.pattern_instability = 0
        /\ ret.val.change_point = 50000
        /\ ret.val.momentum_shift = 4000
        /\ ret.val.flip_acceleration = 50000
        /\ (ret.val.feature_drift = 0 =>
               /\ ret.val.switch_prob =
                      RoundTo(Clamp(self.baseline_prob + 100000 + 400000 \div 90),
                              10000)
               /\ (self.baseline_prob = 300000 => ret.val.switch_prob = 400000))

\* the flat history on the default calculator, without features
C10_Witness ==
    /\ Returned
    /\ IsFlat90(args)
    /\ args.features.is_none
    /\ self = Calculator(90, 14, 300000)
    /\ ret.val.switch_prob = 400000

-----------------------------------------------------------------------------
(* Feature drift and the combination                                       *)

\* the call ran the scorers: a timestamp column, every value parseable, and
\* at least one trade
Scored(a) == StructurallyValid(a) /\ a.trades # <<>>

\* every feature supplied with the call is a number
NumericFeatures(a) ==
    a.features.is_none \/ ~feature_drift_raises(a.features.dict)

Outside(v, lo, hi) == v < lo \/ v > hi

\* the increment of one extremity condition: inc if the feature is present
\* and its magnitude lies outside [lo, hi]
Increment(f, k, magnitude, lo, hi, inc) ==
    IF k \in DOMAIN f /\ Outside(IF magnitude THEN Abs(f[k]) ELSE f[k], lo, hi)
    THEN inc ELSE 0

\* C11: feature_drift is 0.0 when no FeatureSet is supplied; otherwise it is
\* min(0.10, sum of the increments of the conditions that hold):
\* |momentum_beta_20d| outside [0.2, 0.9] adds 0.03, holding_period_avg
\* outside [2, 60] adds 0.03, aggressiveness outside [0.2, 0.9] adds 0.04,
\* a value on a boundary not counting as outside; momentum_beta_20d = 0.95
\* with every other feature in range gives exactly 0.03.
C11_FeatureDriftIsCappedSum ==
    (Returned /\ Scored(args) /\ NumericFeatures(args)) =>
        LET f == args.features.dict
        IN  /\ args.features.is_none => ret.val.feature_drift = 0
            /\ ~args.features.is_none =>
                   ret.val.feature_drift =
                       Min(100000,
                           Increment(f, "momentum_beta_20d", TRUE, 20, 90, 30000)
                           + Increment(f, "holding_period_avg", FALSE, 2, 60, 30000)
                           + Increment(f, "aggressiveness", FALSE, 20, 90, 40000))
            /\ (/\ ~args.features.is_none
                /\ DOMAIN f = FeatureKeys
                /\ f["momentum_beta_20d"] = 95
                /\ ~Outside(f["holding_period_avg"], 2, 60)
                /\ ~Outside(f["aggressiveness"], 20, 90)) =>
                   ret.val.feature_drift = 30000

\* momentum_beta_20d = 0.95 with the holding period and the aggressiveness
\* on the upper boundaries of their ranges: only the beta condition trips
C11_Witness ==
    /\ Returned
    /\ Scored(args)
    /\ ~args.features.is_none
    /\ DOMAIN args.features.dict = FeatureKeys
    /\ args.features.dict["momentum_beta_20d"] = 95
    /\ args.features.dict["holding_period_avg"] = 60
    /\ args.features.dict["aggressiveness"] = 90
    /\ ret.val.feature_drift = 30000

\* the result is not one of the short-circuit baseline results
NotShortCircuit(r) == r.reasoning[1] # "Using baseline probability"

\* the sum of the five component scores as the result reports them
ReportedSum(r) ==
    r.pattern_instability + r.change_point + r.momentum_shift
    + r.flip_acceleration + r.feature_drift

\* the five scores of the call before they are rounded for the result
UnroundedSum(slf, a) ==
    LET df == IF a.has_timestamp THEN sort_values(a.trades) ELSE a.trades
    IN  _compute_pattern_instability(df, a.has_timestamp, slf.window_size)
        + _detect_change_points(df, a.has_timestamp)
        + _compute_momentum_shifts(df, a.has_timestamp)
        + _compute_flip_acceleration(df, a.has_timestamp)
        + (IF a.features.is_none THEN 0 ELSE _compute_feature_drift(a.features.dict))

\* C12 as claimed: in every result that is not a short-circuit baseline
\* result, switch_prob equals baseline_prob plus the sum of the five
\* component scores reported in that result, clamped to [0.15, 0.85].
C12_SwitchProbIsClampedSum ==
    (Returned /\ NotShortCircuit(ret.val)) =>
        ret.val.switch_prob = Clamp(self.baseline_prob + ReportedSum(ret.val))

\* C12 as amended: in every such result switch_prob is baseline_prob plus
\* the sum of the five scores as computed, clamped to [0.15, 0.85] and then
\* rounded to two decimals, while the components are reported rounded to
\* three decimals; so switch_prob is a whole number of hundredths that
\* lies within 0.0075 of the clamped sum of the reported figures.
C12_SwitchProbIsRoundedClampedSum ==
    (Returned /\ NotShortCircuit(ret.val)) =>
        /\ ret.val.switch_prob =
               RoundTo(Clamp(self.baseline_prob + UnroundedSum(self, args)), 10000)
        /\ ret.val.switch_prob % 10000 = 0
        /\ Diff(ret.val.switch_prob,
                Clamp(self.baseline_prob + ReportedSum(ret.val))) <= 7500

\* a result whose switch_prob is not the clamped sum of its reported
\* figures although the clamp did not act
C12_Witness ==
    /\ Returned
    /\ NotShortCircuit(ret.val)
    /\ InRange(self.baseline_prob + ReportedSum(ret.val))
    /\ ret.val.switch_prob # self.baseline_prob + ReportedSum(ret.val)

-----------------------------------------------------------------------------
(* Change-point recency and flip acceleration                              *)

\* the age of the breakpoint that the CUSUM test of lines 242-257 flags in
\* the series xs, counted back from the end of xs; 0 when it flags none
BreakpointAge(xs) ==
    LET k == CusumScan(xs, series_mean(xs), series_std(xs))
    IN  IF Len(xs) < 20 \/ series_std(xs) < 1 THEN 0 ELSE Len(xs) - k

RecencyTier(age) ==
    IF age <= 14 THEN 250000
    ELSE IF age <= 30 THEN 150000
    ELSE IF age <= 60 THEN 100000
    ELSE 50000

\* C13: given a detected breakpoint, the change-point score is tiered by
\* the age of the breakpoint counted from the end of the flip-count series:
\* age <= 14 days gives 0.25, <= 30 gives 0.15, <= 60 gives 0.10, older
\* gives 0.05.
C13_ScoreTieredByBreakpointAge ==
    (Returned /\ Scored(args)) =>
        LET age == BreakpointAge(FlipSeries(args))
        IN  age > 0 => ret.val.change_point = RecencyTier(age)

\* (mean of the last 7 values) / (mean of the other values) > num / den,
\* for a series of more than 7 values whose other values are not all zero
RatioExceeds(xs, num, den) ==
    den * SumSeq(Last(xs, 7)) * (Len(xs) - 7) > num * SumSeq(ButLast(xs, 7)) * 7

RatioIs(xs, num, den) ==
    den * SumSeq(Last(xs, 7)) * (Len(xs) - 7) = num * SumSeq(ButLast(xs, 7)) * 7

\* C14: with at least 21 days of flip counts and a non-zero baseline mean,
\* flip_acceleration is a step function of the ratio (mean of the recent 7
\* days / mean of the remaining days): > 1.5 gives 0.15, > 1.2 gives 0.10,
\* > 1.0 gives 0.05, <= 1.0 gives 0.02, a ratio exactly on a threshold
\* falling in the lower tier; with fewer than 21 days or a zero baseline
\* mean the score is 0.05.
C14_FlipAccelerationTiers ==
    (Returned /\ Scored(args)) =>
        LET xs == FlipSeries(args)
            score == ret.val.flip_acceleration
        IN  IF Len(xs) < 21 \/ SumSeq(ButLast(xs, 7)) = 0 THEN score = 50000
            ELSE /\ RatioExceeds(xs, 3, 2) => score = 150000
                 /\ (RatioExceeds(xs, 6, 5) /\ ~RatioExceeds(xs, 3, 2)) => score = 100000
                 /\ (RatioExceeds(xs, 1, 1) /\ ~RatioExceeds(xs, 6, 5)) => score = 50000
                 /\ ~RatioExceeds(xs, 1, 1) => score = 20000

\* a series of 21 days whose ratio is exactly 1.5, scored in the 0.10 tier
C14_Witness ==
    /\ Returned
    /\ Scored(args)
    /\ Len(FlipSeries(args)) >= 21
    /\ RatioIs(FlipSeries(args), 3, 2)
    /\ ret.val.flip_acceleration = 100000

-----------------------------------------------------------------------------
(* Concurrent invocations of calculate                                     *)
(* Threads call calculate on one calculator, passing frames, positions and *)
(* features that they share.  calculate is followed statement by           *)
(* statement: what every statement reads and which object it writes.  A    *)
(* name of the code (trades_df) is bound to an object, either one of the   *)
(* caller's or one that the call created.                                  *)

Threads == {"t1", "t2"}
FrameIds == {"df1", "df2"}

TradeColumns == {"timestamp", "instrument", "side", "quantity", "price"}

\* a DataFrame object: its columns, the dtype of its timestamp column, rows
Frame(rows, has_timestamp) ==
    [columns |-> IF has_timestamp THEN TradeColumns
                 ELSE TradeColumns \ {"timestamp"},
     ts_dtype |-> "object",
     rows |-> rows]

NoFrame == [columns |-> {}, ts_dtype |-> "object", rows |-> <<>>]

CallerRef(f) == [kind |-> "caller", id |-> f]
LocalRef(n) == [kind |-> "local", id |-> n]

\* the object a name is bound to
Deref(sh, tstate, ref) ==
    IF ref.kind = "caller" THEN sh.trades[ref.id] ELSE tstate.objs[ref.id]

\* a store into the object a name is bound to
StoreShared(sh, ref, frame) ==
    IF ref.kind = "caller" THEN [sh EXCEPT !.trades[ref.id] = frame] ELSE sh

StoreLocal(tstate, ref, frame) ==
    IF ref.kind = "local" THEN [tstate EXCEPT !.objs[ref.id] = frame] ELSE tstate

\* variant: no copy is made, the name stays bound to the object it had
copy_ref_alias(ref, fresh) == ref

\* DataFrame.copy(): the name is bound to a fresh object
copy_ref(ref, fresh) == fresh

has_timestamp_column(frame) == "timestamp" \in frame.columns

IdleThread ==
    [pc |-> "idle", frame |-> "df1",
     trades_df |-> CallerRef("df1"), momentum_df |-> CallerRef("df1"),
     objs |-> [copy |-> NoFrame, momentum |-> NoFrame],
     pattern_score |-> 0, changepoint_score |-> 0, momentum_score |-> 0,
     flip_score |-> 0, drift_score |-> 0,
     result |-> <<>>]

\* the frames the callers share
ThreadFrames ==
    {Frame(<<>>, TRUE),
     Frame(<<Trade(0, 1, "EURUSD", "BUY", 1)>>, TRUE),
     Frame(<<Trade(1, 0, "EURUSD", "SELL", 2), Trade(0, 1, "GBPUSD", "BUY", 1)>>, TRUE),
     Frame(<<Trade(0, 1, "EURUSD", "BUY", 1), BadTrade("EURUSD", "SELL", 2)>>, TRUE),
     Frame(Flat(14, 1), FALSE),
     Frame(Step(21, 7, 2, 3), TRUE)}

ThreadCalculators == {Calculator(90, 14, 300000), Calculator(30, 3, 50000)}

ThreadFeatures == {NoFeatures, Features([k \in {"momentum_beta_20d"} |-> 95])}

\* the arguments of a call on frame f, as the caller holds them in sh
ArgsOfCall(sh, f) ==
    MkArgs(sh.trades[f].rows, has_timestamp_column(sh.trades[f]),
           sh.features, sh.positions)

InitThreads ==
    /\ shared \in [calculator : ThreadCalculators,
                    trades : {tr \in [FrameIds -> ThreadFrames] :
                                 tr["df2"].rows # <<>> /\ Len(tr["df2"].rows) <= 2},
                    positions : {<<[instrument |-> "EURUSD", net_position |-> 1]>>},
                    features : ThreadFeatures]
    /\ orig = shared
    /\ th = [t \in Threads |-> IdleThread]
    /\ self = Calculator(90, 14, 300000)
    /\ pc = "idle"
    /\ args = NoArgs
    /\ ret = NoRet
    /\ IdleQueue
    /\ IdleService
    /\ IdleStream

\* the frame that the name trades_df of thread t is bound to
TradesOf(t) == Deref(shared, th[t], th[t].trades_df)

\* thread t calls calculate(client_id, trades_df, positions_df, features)
\* with the caller's frame f
Invoke(t, f) ==
    /\ th[t].pc = "idle"
    /\ th' = [th EXCEPT ![t] = [IdleThread EXCEPT !.pc = "check_empty",
                                                 !.frame = f,
                                                 !.trades_df = CallerRef(f),
                                                 !.momentum_df = CallerRef(f)]]
    /\ UNCHANGED <<shared, orig, calc_vars, queue_vars, service_vars, stream_vars>>

\* if trades_df.empty: return the baseline result
CheckEmpty(t) ==
    /\ th[t].pc = "check_empty"
    /\ th' = [th EXCEPT ![t] =
                 IF TradesOf(t).rows = <<>>
                 THEN [@ EXCEPT !.pc = "done",
                                !.result = _get_baseline_result(
                                               shared.calculator, <<"No trading history">>)]
                 ELSE [@ EXCEPT !.pc = IF has_timestamp_column(TradesOf(t))
                                       THEN "copy" ELSE "pattern"]]
    /\ UNCHANGED <<shared, orig, calc_vars, queue_vars, service_vars, stream_vars>>

\* trades_df = trades_df.copy()
CopyFrame(t) ==
    /\ th[t].pc = "copy"
    /\ LET r == copy_ref(th[t].trades_df, LocalRef("copy"))
       IN  /\ shared' = StoreShared(shared, r, TradesOf(t))
           /\ th' = [th EXCEPT ![t] = [StoreLocal(@, r, TradesOf(t))
                                          EXCEPT !.trades_df = r, !.pc = "to_datetime"]]
    /\ UNCHANGED <<orig, calc_vars, queue_vars, service_vars, stream_vars>>

\* trades_df['timestamp'] = pd.to_datetime(trades_df['timestamp']): a store
\* into the object trades_df is bound to; an unparseable value raises, and
\* the handler of calculate returns the baseline result
ToDatetime(t) ==
    /\ th[t].pc = "to_datetime"
    /\ LET dt == to_datetime(TradesOf(t).rows)
           converted == [TradesOf(t) EXCEPT !.ts_dtype = "datetime64"]
       IN  IF dt.exc
           THEN /\ th' = [th EXCEPT ![t] =
                             [@ EXCEPT !.pc = "done",
                                       !.result = _get_baseline_result(
                                                      shared.calculator, <<"Error", dt.msg>>)]]
                /\ UNCHANGED shared
           ELSE /\ shared' = StoreShared(shared, th[t].trades_df, converted)
                /\ th' = [th EXCEPT ![t] =
                             [StoreLocal(@, th[t].trades_df, converted)
                                 EXCEPT !.pc = "sort"]]
    /\ UNCHANGED <<orig, calc_vars, queue_vars, service_vars, stream_vars>>

\* trades_df = trades_df.sort_values('timestamp'): a new frame
SortFrame(t) ==
    /\ th[t].pc = "sort"
    /\ th' = [th EXCEPT ![t] =
                 [@ EXCEPT !.objs.copy = [TradesOf(t) EXCEPT
                                             !.rows = sort_values(TradesOf(t).rows)],
                           !.trades_df = LocalRef("copy"),
                           !.pc = "pattern"]]
    /\ UNCHANGED <<shared, orig, calc_vars, queue_vars, service_vars, stream_vars>>

\* pattern_score = self._compute_pattern_instability(trades_df): reads the
\* frame and self.window_size, builds its own frame `daily`
Pattern(t) ==
    /\ th[t].pc = "pattern"
    /\ th' = [th EXCEPT ![t] =
                 [@ EXCEPT !.pattern_score =
                               _compute_pattern_instability(
                                   TradesOf(t).rows, has_timestamp_column(TradesOf(t)),
                                   shared.calculator.window_size),
                           !.pc = "changepoint"]]
    /\ UNCHANGED <<shared, orig, calc_vars, queue_vars, service_vars, stream_vars>>

\* changepoint_score = self._detect_change_points(trades_df, positions_df):
\* _compute_daily_flips works on copies of selections of the frame
ChangePoint(t) ==
    /\ th[t].pc = "changepoint"
    /\ th' = [th EXCEPT ![t] =
                 [@ EXCEPT !.changepoint_score =
                               _detect_change_points(
                                   TradesOf(t).rows, has_timestamp_column(TradesOf(t))),
                           !.pc = "momentum_copy"]]
    /\ UNCHANGED <<shared, orig, calc_vars, queue_vars, service_vars, stream_vars>>

\* _compute_momentum_shifts, line 293: trades_df = trades_df.copy()
MomentumCopy(t) ==
    /\ th[t].pc = "momentum_copy"
    /\ LET r == copy_ref(th[t].trades_df, LocalRef("momentum"))
       IN  /\ shared' = StoreShared(shared, r, TradesOf(t))
           /\ th' = [th EXCEPT ![t] = [StoreLocal(@, r, TradesOf(t))
                                          EXCEPT !.momentum_df = r,
                                                 !.pc = "momentum_apply"]]
    /\ UNCHANGED <<orig, calc_vars, queue_vars, service_vars, stream_vars>>

\* _compute_momentum_shifts, lines 294-318: trades_df['signed_qty'] = ...
\* is a store into the object its trades_df is bound to; the rest reads
MomentumApply(t) ==
    /\ th[t].pc = "momentum_apply"
    /\ LET fr == Deref(shared, th[t], th[t].momentum_df)
           with_column == [fr EXCEPT !.columns = @ \cup {"signed_qty"}]
       IN  /\ shared' = StoreShared(shared, th[t].momentum_df, with_column)
           /\ th' = [th EXCEPT ![t] =
                        [StoreLocal(@, th[t].momentum_df, with_column)
                            EXCEPT !.momentum_score =
                                       _compute_momentum_shifts(
                                           fr.rows, has_timestamp_column(fr)),
                                   !.pc = "flip"]]
    /\ UNCHANGED <<orig, calc_vars, queue_vars, service_vars, stream_vars>>

\* flip_score = self._compute_flip_acceleration(trades_df)
Flip(t) ==
    /\ th[t].pc = "flip"
    /\ th' = [th EXCEPT ![t] =
                 [@ EXCEPT !.flip_score =
                               _compute_flip_acceleration(
                                   TradesOf(t).rows, has_timestamp_column(TradesOf(t))),
                           !.pc = "drift"]]
    /\ UNCHANGED <<shared, orig, calc_vars, queue_vars, service_vars, stream_vars>>

\* drift_score = self._compute_feature_drift(features) if features else 0.0
Drift(t) ==
    /\ th[t].pc = "drift"
    /\ th' = [th EXCEPT ![t] =
                 [@ EXCEPT !.drift_score =
                               IF ~shared.features.is_none
                                  /\ DOMAIN shared.features.dict # {}
                               THEN _compute_feature_drift(shared.features.dict)
                               ELSE 0,
                           !.pc = "combine"]]
    /\ UNCHANGED <<shared, orig, calc_vars, queue_vars, service_vars, stream_vars>>

\* lines 124-156: reads self.baseline_prob and returns the dict
Combine(t) ==
    /\ th[t].pc = "combine"
    /\ th' = [th EXCEPT ![t] =
                 [@ EXCEPT !.result =
                               combine_scores(shared.calculator,
                                              th[t].pattern_score, th[t].changepoint_score,
                                              th[t].momentum_score, th[t].flip_score,
                                              th[t].drift_score),
                           !.pc = "done"]]
    /\ UNCHANGED <<shared, orig, calc_vars, queue_vars, service_vars, stream_vars>>

\* the caller takes the result; the objects of the call are dropped
Return(t) ==
    /\ th[t].pc = "done"
    /\ th' = [th EXCEPT ![t] = IdleThread]
    /\ UNCHANGED <<shared, orig, calc_vars, queue_vars, service_vars, stream_vars>>

NextThreads ==
    \E t \in Threads :
        \/ \E f \in FrameIds : Invoke(t, f)
        \/ CheckEmpty(t)
        \/ CopyFrame(t)
        \/ ToDatetime(t)
        \/ SortFrame(t)
        \/ Pattern(t)
        \/ ChangePoint(t)
        \/ MomentumCopy(t)
        \/ MomentumApply(t)
        \/ Flip(t)
        \/ Drift(t)
        \/ Combine(t)
        \/ Return(t)

SpecThreads == InitThreads /\ [][NextThreads]_vars

\* C15: calculate has no side effects on shared state: the calculator's
\* configuration and the caller's trades, positions and features objects
\* are as they were before the calls, and under any interleaving every
\* finished invocation has the result it has when run alone.
C15_NoSideEffects ==
    /\ shared = orig
    /\ \A t \in Threads :
           th[t].pc = "done" =>
               th[t].result = calculate(orig.calculator, ArgsOfCall(orig, th[t].frame)).val

\* two invocations on the same frame, which has a timestamp column and
\* unsorted rows: one has finished, while the other has converted, sorted
\* and extended its own copies
C15_Witness ==
    /\ th["t1"].pc = "done"
    /\ th["t2"].pc = "flip"
    /\ th["t1"].frame = th["t2"].frame
    /\ has_timestamp_column(orig.trades[th["t1"].frame])
    /\ ~IsSorted(orig.trades[th["t1"].frame].rows)
    /\ th["t2"].objs.copy.ts_dtype = "datetime64"
    /\ "signed_qty" \in th["t2"].objs.momentum.columns
    /\ th["t1"].result.reasoning[1] # "Using baseline probability"

-----------------------------------------------------------------------------
(* AlertQueue (api-facade/services/alert_queue.py)                         *)
(* The queue object holds _pending, _history, _lock and _history_hours.    *)
(* Every method is followed statement by statement, between taking and     *)
(* releasing the lock.  Times are whole hours.  An alert is kept as an     *)
(* identity and its 'timestamp' entry.                                     *)

QThreads == {"w1", "w2"}

\* the alerts added in one behaviour
MaxAlerts == 2

\* the hours the clock goes through
ClockHours == 2..4

\* deque(maxlen=1000)
HistoryMaxLen == 1000

\* what an alert holds under 'timestamp': nothing (the key is absent); an
\* ISO string without offset; an ISO string with 'Z' or an offset; a string
\* that is no ISO date, or a truthy value that is no string; None or ''
Missing == [kind |-> "missing", time |-> 0]
Naive(t) == [kind |-> "naive", time |-> t]
Aware(t) == [kind |-> "aware", time |-> t]
Invalid == [kind |-> "invalid", time |-> 0]
Falsy == [kind |-> "falsy", time |-> 0]

Alert(id, ts) == [id |-> id, timestamp |-> ts]

\* the timestamps a caller of add supplies at time t
SuppliedTimestamps(t) ==
    {Missing, Naive(0), Aware(t), Invalid, Falsy}

\* collections.deque.append under maxlen: a full deque drops its left end
deque_append(d, x, maxlen) ==
    IF Len(d) >= maxlen THEN Append(Tail(d), x) ELSE Append(d, x)

\* variant: the lock does not exclude
can_acquire_always(lock) == TRUE

\* with self._lock: entered when no thread holds the lock
can_acquire(lock) == lock = "free"

\* lines 136-146: to_remove after the loop has run from index i.  A falsy
\* timestamp is skipped; fromisoformat fails on what is no ISO date, and an
\* offset-aware datetime cannot be compared with the naive cutoff: both
\* raise into `except: pass`; the first alert that is not old breaks
RECURSIVE to_remove_from(_, _, _)
to_remove_from(history, i, cutoff) ==
    IF i > Len(history) THEN 0
    ELSE IF history[i].timestamp.kind \in {"missing", "falsy"}
    THEN to_remove_from(history, i + 1, cutoff)
    ELSE IF history[i].timestamp.kind # "naive"
    THEN to_remove_from(history, i + 1, cutoff)
    ELSE IF history[i].timestamp.time < cutoff
    THEN 1 + to_remove_from(history, i + 1, cutoff)
    ELSE 0

\* datetime.utcnow() - timedelta(hours=self._history_hours)
cutoff_at(que, t) == t - que._history_hours

\* _cleanup_history: popleft() to_remove times
_cleanup_history(que, t) ==
    LET to_remove == to_remove_from(que._history, 1, cutoff_at(que, t))
    IN  [que EXCEPT !._history = SubSeq(@, to_remove + 1, Len(@))]

Reverse(s) == [i \in 1..Len(s) |-> s[Len(s) + 1 - i]]

\* history[:limit] for limit >= 0
Slice(s, limit) == SubSeq(s, 1, Min(limit, Len(s)))

\* variant: clear also empties the history
clear_body_all(que) == [que EXCEPT !._pending = <<>>, !._history = <<>>]

\* clear, line 112: self._pending.clear()
clear_body(que) == [que EXCEPT !._pending = <<>>]

IdleQThread ==
    [pc |-> "idle", op |-> "none", alert |-> Alert(0, Missing), alerts |-> <<>>, limit |-> 0,
     pre |-> <<>>, removed |-> <<>>, cutoff |-> 0, ret |-> <<>>]

\* AlertQueue(history_hours)
InitQueue ==
    /\ queue \in [_pending : {<<>>}, _history : {<<>>}, _lock : {"free"},
                   _history_hours : {1, 2}]
    /\ qth = [t \in QThreads |-> IdleQThread]
    /\ now = CHOOSE h \in ClockHours : \A g \in ClockHours : h <= g
    /\ trace = [added |-> <<>>, delivered |-> <<>>, cleared |-> FALSE, calls |-> 0]
    /\ self = Calculator(90, 14, 300000)
    /\ pc = "idle"
    /\ args = NoArgs
    /\ ret = NoRet
    /\ IdleThreads
    /\ IdleService
    /\ IdleStream

\* the first statement of each method inside its `with self._lock:`
FirstStatement(op) ==
    IF op = "add" THEN "add_timestamp"
    ELSE IF op = "get_pending" THEN "gp_check"
    ELSE IF op = "get_history" THEN "gh_cleanup"
    ELSE IF op = "clear" THEN "cl_clear"
    ELSE IF op = "clear_all" THEN "ca_pending"
    ELSE "gs_read"

\* thread t calls a method and enters its `with self._lock:`, which it can
\* when no thread holds the lock; until then the call does nothing.  `pre`
\* keeps what the queue held at that moment
CallMethod(t, op, alert, limit) ==
    /\ qth[t].pc = "idle"
    /\ can_acquire(queue._lock)
    /\ queue' = [queue EXCEPT !._lock = t]
    /\ qth' = [qth EXCEPT ![t] =
                  [IdleQThread EXCEPT !.pc = FirstStatement(op), !.op = op,
                                      !.alert = alert, !.limit = limit,
                                      !.pre = [_pending |-> queue._pending,
                                               _history |-> queue._history]]]
    /\ UNCHANGED <<now, calc_vars, thread_vars, service_vars, stream_vars>>

\* add(alert), the alert holding one of the timestamps a caller supplies
CallAdd(t) ==
    /\ trace.calls < MaxAlerts
    /\ \E ts \in SuppliedTimestamps(now) :
           CallMethod(t, "add", Alert(trace.calls + 1, ts), 0)
    /\ trace' = [trace EXCEPT !.calls = @ + 1]

CallGetPending(t) ==
    /\ CallMethod(t, "get_pending", Alert(0, Missing), 0)
    /\ UNCHANGED trace

\* get_history(limit), with the default limit or a short one
CallGetHistory(t) ==
    /\ \E limit \in {1, 50} : CallMethod(t, "get_history", Alert(0, Missing), limit)
    /\ UNCHANGED trace

CallClear(t) ==
    /\ CallMethod(t, "clear", Alert(0, Missing), 0)
    /\ UNCHANGED trace

CallClearAll(t) ==
    /\ CallMethod(t, "clear_all", Alert(0, Missing), 0)
    /\ UNCHANGED trace

CallGetStats(t) ==
    /\ CallMethod(t, "get_stats", Alert(0, Missing), 0)
    /\ UNCHANGED trace

\* the end of the with block: the lock is released and the method returns;
\* what get_pending returns goes to its caller
Release(t) ==
    /\ qth[t].pc = "release"
    /\ queue' = [queue EXCEPT !._lock = "free"]
    /\ trace' = IF qth[t].op = "get_pending"
                THEN [trace EXCEPT !.delivered =
                         @ \o [i \in 1..Len(qth[t].ret) |-> qth[t].ret[i].id]]
                ELSE trace
    /\ qth' = [qth EXCEPT ![t] = IdleQThread]
    /\ UNCHANGED <<now, calc_vars, thread_vars, service_vars, stream_vars>>

\* add, lines 50-51
AddTimestamp(t) ==
    /\ qth[t].pc = "add_timestamp"
    /\ qth' = [qth EXCEPT ![t] =
                  [@ EXCEPT !.alert.timestamp =
                                IF @.kind = "missing" THEN Naive(now) ELSE @,
                            !.pc = "add_pending"]]
    /\ UNCHANGED <<queue, now, trace, calc_vars, thread_vars, service_vars, stream_vars>>

\* add, line 54
AddPending(t) ==
    /\ qth[t].pc = "add_pending"
    /\ queue' = [queue EXCEPT !._pending = Append(@, qth[t].alert)]
    /\ trace' = [trace EXCEPT !.added = Append(@, qth[t].alert.id)]
    /\ qth' = [qth EXCEPT ![t].pc = "add_history"]
    /\ UNCHANGED <<now, calc_vars, thread_vars, service_vars, stream_vars>>

\* add, line 57
AddHistory(t) ==
    /\ qth[t].pc = "add_history"
    /\ queue' = [queue EXCEPT !._history =
                                  deque_append(@, qth[t].alert, HistoryMaxLen)]
    /\ qth' = [qth EXCEPT ![t].pc = "release"]
    /\ UNCHANGED <<now, trace, calc_vars, thread_vars, service_vars, stream_vars>>

\* get_pending, lines 71-72
GpCheck(t) ==
    /\ qth[t].pc = "gp_check"
    /\ qth' = [qth EXCEPT ![t] =
                  IF queue._pending = <<>>
                  THEN [@ EXCEPT !.ret = <<>>, !.pc = "release"]
                  ELSE [@ EXCEPT !.pc = "gp_copy"]]
    /\ UNCHANGED <<queue, now, trace, calc_vars, thread_vars, service_vars, stream_vars>>

\* get_pending, line 75
GpCopy(t) ==
    /\ qth[t].pc = "gp_copy"
    /\ qth' = [qth EXCEPT ![t] = [@ EXCEPT !.alerts = queue._pending,
                                          !.pc = "gp_clear"]]
    /\ UNCHANGED <<queue, now, trace, calc_vars, thread_vars, service_vars, stream_vars>>

\* get_pending, lines 78-82
GpClear(t) ==
    /\ qth[t].pc = "gp_clear"
    /\ queue' = [queue EXCEPT !._pending = <<>>]
    /\ qth' = [qth EXCEPT ![t] = [@ EXCEPT !.ret = qth[t].alerts, !.pc = "release"]]
    /\ UNCHANGED <<now, trace, calc_vars, thread_vars, service_vars, stream_vars>>

\* get_history, line 96: self._cleanup_history(); `removed` and `cutoff`
\* keep what it dropped and the cutoff it used
GhCleanup(t) ==
    /\ qth[t].pc = "gh_cleanup"
    /\ queue' = _cleanup_history(queue, now)
    /\ qth' = [qth EXCEPT ![t] =
                  [@ EXCEPT !.removed =
                                SubSeq(queue._history, 1,
                                       Len(queue._history) - Len(queue'._history)),
                            !.cutoff = cutoff_at(queue, now),
                            !.pc = "gh_list"]]
    /\ UNCHANGED <<now, trace, calc_vars, thread_vars, service_vars, stream_vars>>

\* get_history, lines 99-102
GhList(t) ==
    /\ qth[t].pc = "gh_list"
    /\ qth' = [qth EXCEPT ![t] =
                  [@ EXCEPT !.ret = Slice(Reverse(queue._history), qth[t].limit),
                            !.pc = "release"]]
    /\ UNCHANGED <<queue, now, trace, calc_vars, thread_vars, service_vars, stream_vars>>

\* clear, lines 111-112
ClClear(t) ==
    /\ qth[t].pc = "cl_clear"
    /\ queue' = clear_body(queue)
    /\ trace' = [trace EXCEPT !.cleared = TRUE]
    /\ qth' = [qth EXCEPT ![t].pc = "release"]
    /\ UNCHANGED <<now, calc_vars, thread_vars, service_vars, stream_vars>>

\* clear_all, line 121
CaPending(t) ==
    /\ qth[t].pc = "ca_pending"
    /\ queue' = [queue EXCEPT !._pending = <<>>]
    /\ trace' = [trace EXCEPT !.cleared = TRUE]
    /\ qth' = [qth EXCEPT ![t].pc = "ca_history"]
    /\ UNCHANGED <<now, calc_vars, thread_vars, service_vars, stream_vars>>

\* clear_all, line 122
CaHistory(t) ==
    /\ qth[t].pc = "ca_history"
    /\ queue' = [queue EXCEPT !._history = <<>>]
    /\ qth' = [qth EXCEPT ![t].pc = "release"]
    /\ UNCHANGED <<now, trace, calc_vars, thread_vars, service_vars, stream_vars>>

\* get_stats, lines 163-168
GsRead(t) ==
    /\ qth[t].pc = "gs_read"
    /\ qth' = [qth EXCEPT ![t] =
                  [@ EXCEPT !.ret = <<[pending_count |-> Len(queue._pending),
                                       history_count |-> Len(queue._history),
                                       history_hours |-> queue._history_hours,
                                       timestamp |-> Naive(now)]>>,
                            !.pc = "release"]]
    /\ UNCHANGED <<queue, now, trace, calc_vars, thread_vars, service_vars, stream_vars>>

\* an hour passes
Tick ==
    /\ now + 1 \in ClockHours
    /\ now' = now + 1
    /\ UNCHANGED <<queue, qth, trace, calc_vars, thread_vars, service_vars, stream_vars>>

NextQueue ==
    \/ Tick
    \/ \E t \in QThreads :
           \/ CallAdd(t)
           \/ CallGetPending(t)
           \/ CallGetHistory(t)
           \/ CallClear(t)
           \/ CallClearAll(t)
           \/ CallGetStats(t)
           \/ Release(t)
           \/ AddTimestamp(t)
           \/ AddPending(t)
           \/ AddHistory(t)
           \/ GpCheck(t)
           \/ GpCopy(t)
           \/ GpClear(t)
           \/ GhCleanup(t)
           \/ GhList(t)
           \/ ClClear(t)
           \/ CaPending(t)
           \/ CaHistory(t)
           \/ GsRead(t)

SpecQueue == InitQueue /\ [][NextQueue]_vars

-----------------------------------------------------------------------------
(* Properties of the AlertQueue                                            *)

Ids(alerts) == [i \in 1..Len(alerts) |-> alerts[i].id]

\* thread t has finished the body of method op and is about to return
AtReturn(t, op) == qth[t].op = op /\ qth[t].pc = "release"

\* what a get_pending call of thread t has taken and not yet returned
HeldBy(t) == IF AtReturn(t, "get_pending") THEN Ids(qth[t].ret) ELSE <<>>

NoDuplicates(s) == \A i, j \in 1..Len(s) : s[i] = s[j] => i = j

\* C16: under any interleaving of add and get_pending calls of several
\* threads, with no clear in between, every added alert is returned by
\* exactly one get_pending call, never lost and never returned twice; each
\* get_pending returns its alerts in the order they were added and leaves
\* the pending queue empty of everything it returned.
C16_EachAlertReturnedOnce ==
    ~trace.cleared =>
        /\ trace.delivered \o HeldBy("w1") \o HeldBy("w2") \o Ids(queue._pending)
               = trace.added
        /\ NoDuplicates(trace.delivered \o HeldBy("w1") \o HeldBy("w2"))
        /\ \A t \in QThreads :
               AtReturn(t, "get_pending") =>
                   \A i \in 1..Len(qth[t].ret) :
                       \A k \in 1..Len(queue._pending) :
                           queue._pending[k].id # qth[t].ret[i].id

\* a second get_pending is about to return the alert added after the first
\* get_pending had returned the first alert
C16_Witness ==
    /\ ~trace.cleared
    /\ trace.added = <<1, 2>>
    /\ trace.delivered = <<1>>
    /\ AtReturn("w2", "get_pending")
    /\ Ids(qth["w2"].ret) = <<2>>
    /\ queue._pending = <<>>

\* C17: clear removes every pending alert and leaves the history
\* unchanged; get_pending leaves the history unchanged and get_history
\* leaves the pending queue unchanged; only clear_all empties both.
C17_ClearKeepsHistory ==
    \A t \in QThreads :
        qth[t].pc = "release" =>
            /\ qth[t].op = "clear" =>
                   queue._pending = <<>> /\ queue._history = qth[t].pre._history
            /\ qth[t].op = "get_pending" => queue._history = qth[t].pre._history
            /\ qth[t].op = "get_history" => queue._pending = qth[t].pre._pending
            /\ qth[t].op = "clear_all" =>
                   queue._pending = <<>> /\ queue._history = <<>>
            /\ (/\ qth[t].op # "clear_all"
                /\ qth[t].pre._pending # <<>>
                /\ qth[t].pre._history # <<>>) =>
                   ~(queue._pending = <<>> /\ queue._history = <<>>)

\* clear is about to return, having found two pending alerts and a history
C17_Witness ==
    /\ AtReturn("w1", "clear")
    /\ Len(qth["w1"].pre._pending) = 2
    /\ queue._pending = <<>>
    /\ Len(queue._history) = 2

\* the timestamp names an instant
HasInstant(ts) == ts.kind \in {"naive", "aware"}

\* C18: after any get_history call the history holds no alert whose
\* timestamp is older than history_hours before the call, and the cleanup
\* has removed no alert whose timestamp is within the retention window,
\* whatever alerts were added, with caller-supplied or generated
\* timestamps.
C18_HistoryWithinRetention ==
    \A t \in QThreads :
        AtReturn(t, "get_history") =>
            /\ \A i \in 1..Len(queue._history) :
                   HasInstant(queue._history[i].timestamp) =>
                       queue._history[i].timestamp.time >= qth[t].cutoff
            /\ \A i \in 1..Len(qth[t].removed) :
                   /\ HasInstant(qth[t].removed[i].timestamp)
                   /\ qth[t].removed[i].timestamp.time < qth[t].cutoff

-----------------------------------------------------------------------------
(* tools.py: _count_position_flips                                         *)

\* the trades of one instrument, in timestamp order
trades_of_instrument(trades, instrument) ==
    sort_values(SelectSeq(trades, LAMBDA r : r.instrument = instrument))

\* (position_sign != position_sign.shift()).sum(), less the initial
\* position: the shifted value of the first row is NaN, which differs from
\* every sign, so the rows counted are those of flip_dates
flips_of_instrument(inst_trades) == Max(0, Len(flip_dates(inst_trades)) - 1)

\* total_flips over the instruments of the frame
total_flips_of(trades) ==
    LET insts == unique_instruments(trades)
    IN  SumSeq([k \in 1..Len(insts) |->
                   flips_of_instrument(trades_of_instrument(trades, insts[k]))])

\* (trades['timestamp'].max() - trades['timestamp'].min()).days: whole days
\* between the earliest and the latest row
time_range_days(trades) ==
    LET hi == CHOOSE i \in 1..Len(trades) :
                  \A j \in 1..Len(trades) : TsLeq(trades[j].timestamp, trades[i].timestamp)
        lo == CHOOSE i \in 1..Len(trades) :
                  \A j \in 1..Len(trades) : TsLeq(trades[i].timestamp, trades[j].timestamp)
        days == trades[hi].timestamp.date - trades[lo].timestamp.date
    IN  IF trades[hi].timestamp.time < trades[lo].timestamp.time THEN days - 1 ELSE days

\* flips per 30 days of a frame of datetime rows; the count itself when the
\* frame spans less than a day
_count_position_flips(trades) ==
    IF Len(trades) < 2 THEN 0
    ELSE LET total_flips == total_flips_of(trades)
             days == time_range_days(trades)
         IN  IF days > 0 THEN (total_flips * 30) \div days ELSE total_flips

-----------------------------------------------------------------------------
(* Properties of the flip count                                            *)

\* calculate has returned the combined result of the five scorers for a
\* frame with a timestamp column
ScorersRan == Returned /\ NotShortCircuit(ret.val) /\ args.has_timestamp

\* the dates of the rows lo..hi of one instrument's trades that take its
\* running signed position, cum before row lo, to the opposite sign
RECURSIVE CrossingDatesRange(_, _, _, _)
CrossingDatesRange(rows, lo, hi, cum) ==
    IF lo > hi THEN <<>>
    ELSE IF lo = hi
    THEN IF Sign(cum) * Sign(cum + signed_qty(rows[lo])) = -1
         THEN <<rows[lo].timestamp.date>> ELSE <<>>
    ELSE LET mid == (lo + hi) \div 2
             cum_mid == cum + SumRange([i \in 1..Len(rows) |-> signed_qty(rows[i])],
                                       lo, mid)
         IN  CrossingDatesRange(rows, lo, mid, cum)
             \o CrossingDatesRange(rows, mid + 1, hi, cum_mid)

CrossingDates(inst_trades) == CrossingDatesRange(inst_trades, 1, Len(inst_trades), 0)

\* the instruments of the call's frame
InstrumentsOf(a) == {a.trades[i].instrument : i \in 1..Len(a.trades)}

\* C19: for each instrument a position flip is counted exactly when a trade
\* moves that instrument's running signed position (buy adds, sell
\* subtracts) across zero to the opposite sign; the first position-opening
\* trade of an instrument is never counted as a flip.
C19_FlipIsSignCrossing ==
    ScorersRan =>
        \A inst \in InstrumentsOf(args) :
            LET inst_trades == trades_of_instrument(sort_values(args.trades), inst)
            IN  /\ flip_dates(inst_trades) = CrossingDates(inst_trades)
                /\ flips_of_instrument(inst_trades) = Len(CrossingDates(inst_trades))

-----------------------------------------------------------------------------
(* Properties of the order of the flip series                              *)

\* the items of the daily_flips dict this call's scorers read
DailyFlips(a) == _compute_daily_flips(sort_values(a.trades), TRUE).val

DatesOf(d) == [i \in 1..Len(d) |-> d[i].date]

Ascending(s) == \A i \in 1..(Len(s) - 1) : s[i] < s[i + 1]

\* the k latest of a set of dates
Latest(S, k) == {x \in S : Cardinality({y \in S : y > x}) < k}

\* C20: the daily flip-count series the change-point and flip-acceleration
\* scorers consume is ordered by calendar date, also when the client trades
\* several instruments: the recent window of the flip-acceleration scorer
\* is the seven latest dates, and the breakpoint age of the change-point
\* scorer is measured back from the latest date.
C20_FlipSeriesInDateOrder ==
    ScorersRan =>
        LET dates == DatesOf(DailyFlips(args))
            recent == Last(dates, 7)
        IN  /\ Ascending(dates)
            /\ {recent[i] : i \in 1..Len(recent)}
                   = Latest({dates[i] : i \in 1..Len(dates)}, 7)
            /\ dates # <<>> =>
                   \A i \in 1..Len(dates) : dates[i] <= dates[Len(dates)]

-----------------------------------------------------------------------------
(* Properties of the days of the flip series                               *)

\* the calendar days on which the client of this call traded
TradingDays(a) == {a.trades[i].timestamp.date : i \in 1..Len(a.trades)}

\* the number of flips _compute_daily_flips finds on day d
FlipsOn(a, d) ==
    LET events == FlipEvents(unique_instruments(sort_values(a.trades)),
                             sort_values(a.trades))
    IN  Cardinality({i \in 1..Len(events) : events[i] = d})

\* C21: every calendar day on which the client traded contributes exactly
\* one entry to the daily flip-count series, with value 0 when no flip
\* occurred that day; the 20-day and 21-day history requirements of the
\* change-point and flip-acceleration scorers therefore count trading
\* days, not only days on which a flip occurred.
C21_OneEntryPerTradingDay ==
    ScorersRan =>
        LET d == DailyFlips(args)
        IN  /\ Len(d) = Cardinality(TradingDays(args))
            /\ \A day \in TradingDays(args) :
                   \E i \in 1..Len(d) :
                       /\ d[i].date = day
                       /\ d[i].count = FlipsOn(args, day)
                       /\ \A j \in 1..Len(d) : d[j].date = day => j = i

-----------------------------------------------------------------------------
(* Properties of the momentum-shift score                                  *)

\* the daily net signed quantities of the call's frame, in date order
DailyNet(a) == daily_net_of(sort_values(a.trades))

\* the consecutive-day pairs whose net signed quantities have opposite signs
OppositePairs(daily_net) ==
    Cardinality({k \in 2..Len(daily_net) :
                    Sign(daily_net[k]) * Sign(daily_net[k - 1]) = -1})

\* C22: with at least 14 daily buckets momentum_shift is
\* min(0.20, 0.40 * c / n), n the number of observed days and c the number
\* of consecutive-day pairs whose daily net signed quantities have opposite
\* signs; the score is 0 when the net direction never changes, and the
\* nominal 0.05 with fewer than 14 days.
C22_MomentumIsOppositePairRate ==
    ScorersRan =>
        LET daily_net == DailyNet(args)
            n == Len(daily_net)
            c == OppositePairs(daily_net)
        IN  ret.val.momentum_shift =
                RoundTo(IF n < 14 THEN 50000
                        ELSE Min(200000, (c * 400000) \div n), 1000)

-----------------------------------------------------------------------------
(* Properties of the pattern-instability score                             *)

\* the daily buckets of the call's frame, in date order
DailyBuckets(a) == daily_agg(sort_values(a.trades))

\* the two rolling variances of the call's buckets
VolumeVar(slf, a) ==
    LET b == DailyBuckets(a)
    IN  rolling_var([k \in 1..Len(b) |-> b[k].daily_volume], slf.window_size)

InstrVar(slf, a) ==
    LET b == DailyBuckets(a)
    IN  rolling_var([k \in 1..Len(b) |-> b[k].instruments], slf.window_size)

\* there are 7 buckets and a full rolling window
EnoughBuckets(slf, a) ==
    LET b == DailyBuckets(a)
    IN  Len(b) >= 7 /\ Len(b) >= slf.window_size

MeanOfTwo(x, y) == (x + y) \div 2

\* the mean of the two variances over the recent 7 days divided by their
\* mean over the whole history plus epsilon
RatioOfMeans(slf, a) ==
    LET volume_var == VolumeVar(slf, a)
        instr_var == InstrVar(slf, a)
    IN  FixDiv(MeanOfTwo(nanmean(Last(volume_var, 7)),
                         nanmean(Last(instr_var, 7))),
               MeanOfTwo(nanmean(volume_var), nanmean(instr_var)) + 1)

\* the mean of the two ratios, each of one variance: its mean over the
\* recent 7 days divided by its mean over the whole history plus epsilon
MeanOfRatios(slf, a) ==
    LET volume_var == VolumeVar(slf, a)
        instr_var == InstrVar(slf, a)
    IN  MeanOfTwo(FixDiv(nanmean(Last(volume_var, 7)), nanmean(volume_var) + 1),
                  FixDiv(nanmean(Last(instr_var, 7)), nanmean(instr_var) + 1))

\* C23: with enough daily buckets pattern_instability is
\* min(0.30, 0.10 * ratio), ratio being the mean of the two rolling
\* variances over the most recent 7 days divided by the mean of the same
\* two variances over the full window plus a small epsilon.
C23_PatternIsRatioOfMeans ==
    (ScorersRan /\ EnoughBuckets(self, args)) =>
        ret.val.pattern_instability =
            RoundTo(Min(300000, RatioOfMeans(self, args) \div 10), 1000)

\* C23, amended: with enough daily buckets pattern_instability is
\* min(0.30, 0.10 * r), r being the mean of two ratios, one for the volume
\* variance and one for the instrument-count variance, each the mean of
\* that rolling variance over the most recent 7 days divided by its mean
\* over the whole history plus epsilon; the score is reported to three
\* decimals.
C23_PatternIsMeanOfRatios ==
    (ScorersRan /\ EnoughBuckets(self, args)) =>
        ret.val.pattern_instability =
            RoundTo(Min(300000, MeanOfRatios(self, args) \div 10), 1000)

\* a client of two instruments whose score is below the cap and is not the
\* ratio of the means
C23_Witness ==
    /\ ScorersRan
    /\ EnoughBuckets(self, args)
    /\ Cardinality(InstrumentsOf(args)) = 2
    /\ ret.val.pattern_instability \in 1..299999
    /\ MeanOfRatios(self, args) # RatioOfMeans(self, args)

\* C24: whenever the pattern-instability scorer lacks enough history for
\* its statistic it returns the nominal 0.05: with fewer than 7 daily
\* buckets, and also with at least 7 buckets but fewer than window_size, so
\* that no rolling variance is defined for any day.
C24_ShortHistoryIsNominal ==
    (ScorersRan /\ ~EnoughBuckets(self, args)) =>
        ret.val.pattern_instability = 50000

-----------------------------------------------------------------------------
(* Properties of the change-point scan                                     *)

\* the score of a scan from the oldest day that stops at the first day over
\* the threshold
FirstFlaggedScore(xs) ==
    IF Len(xs) < 20 THEN 50000
    ELSE IF series_std(xs) < 1 THEN 50000
    ELSE LET first_flagged == CusumScan(xs, series_mean(xs), series_std(xs))
         IN  IF first_flagged = Len(xs) THEN 50000
             ELSE RecencyTier(Len(xs) - first_flagged)

\* C25: the change-point scorer scans the flip-count series from the oldest
\* day and stops at the first day on which the positive or the negative
\* CUSUM deviation exceeds 3 times the series standard deviation; the
\* recency tier of the score is taken from that first flagged day even when
\* later days exceed the threshold too, and the score is the nominal 0.05
\* when the series has fewer than 20 days, has zero standard deviation, or
\* no day is flagged.
C25_TierOfFirstFlaggedDay ==
    ScorersRan => ret.val.change_point = FirstFlaggedScore(FlipSeries(args))

-----------------------------------------------------------------------------
(* Properties of the risk label                                            *)

\* the label the thresholds 0.60 and 0.40 give a probability
LabelOf(p) ==
    IF p > 600000 THEN "HIGH risk of strategy switch"
    ELSE IF p > 400000 THEN "MODERATE risk of strategy switch"
    ELSE "LOW risk of strategy switch"

\* the clamped probability of the call before it is rounded for the result
FinalProb(slf, a) == Clamp(slf.baseline_prob + UnroundedSum(slf, a))

-----------------------------------------------------------------------------
(* Properties of the scorers' failure handling                             *)

\* the frame the scorers of the call are given
ScoredFrame(a) == IF a.has_timestamp THEN sort_values(a.trades) ELSE a.trades

\* the outcome of the body of each trade-based scorer on the call's frame
PatternOutcome(slf, a) ==
    _compute_pattern_instability_try(ScoredFrame(a), a.has_timestamp, slf.window_size)

ChangePointOutcome(a) == _detect_change_points_try(ScoredFrame(a), a.has_timestamp)

MomentumOutcome(a) == _compute_momentum_shifts_try(ScoredFrame(a), a.has_timestamp)

FlipOutcome(a) == _compute_flip_acceleration_try(ScoredFrame(a), a.has_timestamp)

\* the feature-drift scorer was called and failed
DriftFailed(a) == ~a.features.is_none /\ feature_drift_raises(a.features.dict)

\* what a scorer contributes: its fallback if its body failed, else the
\* value its body computed
Contribution(outcome, fallback) == IF outcome.exc THEN fallback ELSE outcome.val

DriftContribution(a) ==
    IF a.features.is_none \/ DriftFailed(a) THEN 0
    ELSE _compute_feature_drift(a.features.dict)

\* C27: a computation failure inside one scorer is absorbed by that scorer
\* alone: it contributes its nominal fallback (0.05 for pattern
\* instability, change point, momentum shift and flip acceleration, 0.0 for
\* feature drift), the other scorers still contribute their computed
\* values, and calculate returns a normal, non-baseline result.
C27_ScorerFailureIsAbsorbed ==
    (Finished /\ args.trades # <<>> /\ Parseable(args)) =>
        LET pattern == Contribution(PatternOutcome(self, args), 50000)
            changepoint == Contribution(ChangePointOutcome(args), 50000)
            momentum == Contribution(MomentumOutcome(args), 50000)
            flip == Contribution(FlipOutcome(args), 50000)
            drift == DriftContribution(args)
        IN  /\ Returned
            /\ NotShortCircuit(ret.val)
            /\ ret.val.pattern_instability = RoundTo(pattern, 1000)
            /\ ret.val.change_point = RoundTo(changepoint, 1000)
            /\ ret.val.momentum_shift = RoundTo(momentum, 1000)
            /\ ret.val.flip_acceleration = RoundTo(flip, 1000)
            /\ ret.val.feature_drift = RoundTo(drift, 1000)
            /\ ret.val.switch_prob =
                   RoundTo(Clamp(self.baseline_prob + pattern + changepoint
                                 + momentum + flip + drift), 10000)

\* the change-point scorer and the feature-drift scorer failed, and the
\* result carries their fallbacks next to the computed scores of the others
C27_Witness ==
    /\ Returned
    /\ NotShortCircuit(ret.val)
    /\ ChangePointOutcome(args).exc
    /\ DriftFailed(args)
    /\ ~PatternOutcome(self, args).exc
    /\ ~MomentumOutcome(args).exc
    /\ ~FlipOutcome(args).exc
    /\ ret.val.change_point = 50000
    /\ ret.val.feature_drift = 0
    /\ ret.val.pattern_instability = 135000
    /\ ret.val.momentum_shift = 38000
    /\ ret.val.flip_acceleration = 150000

-----------------------------------------------------------------------------
(* The entry points of the segmentation agent: compute_switch_probability  *)
(* (switch_probability.py) and fetch_trades_summary (tools.py).  A data    *)
(* service is given by the outcome of each of its three methods: the value *)
(* it returns or the exception it raises.                                  *)

DataService(t, p, f) ==
    [get_trades |-> t, get_positions |-> p, get_client_features |-> f]

NoService == DataService(Ok(<<>>), Ok(<<>>), Ok(NoFeatures))

\* the frames and the features a data service returns
ServiceFrames ==
    {<<>>, <<Trade(0, 1, "EURUSD", "BUY", 1)>>, Flat(21, 1), Step(21, 7, 2, 10),
     <<BadTrade("EURUSD", "BUY", 1)>>}

ServiceFeatures == {NoFeatures} \cup {Features(f) : f \in SomeFeatureDicts}

DataServices ==
    {DataService(t, p, f) :
        t \in {Raise("get_trades failed")} \cup {Ok(x) : x \in ServiceFrames},
        p \in {Raise("get_positions failed"), Ok(<<>>)},
        f \in {Raise("get_client_features failed")}
              \cup {Ok(x) : x \in ServiceFeatures}}

LookbackDays == {30, 90}

\* the body of the try of compute_switch_probability, lines 521-533
compute_switch_probability_try(client_id, data_service, lookback_days) ==
    IF data_service.get_trades.exc THEN data_service.get_trades
    ELSE IF data_service.get_positions.exc THEN data_service.get_positions
    ELSE IF data_service.get_client_features.exc
    THEN data_service.get_client_features
    ELSE LET calculator == Calculator(lookback_days, 14, 300000)
         IN  calculate(calculator,
                       [client_id |-> client_id,
                        trades |-> data_service.get_trades.val,
                        has_timestamp |-> TRUE,
                        features |-> data_service.get_client_features.val,
                        positions |-> data_service.get_positions.val])

\* the dict of the except handler, lines 537-545
error_result(msg) ==
    [switch_prob |-> 300000,
     pattern_instability |-> 0,
     change_point |-> 0,
     momentum_shift |-> 0,
     flip_acceleration |-> 0,
     feature_drift |-> 0,
     reasoning |-> <<"Error in calculation", msg>>]

\* variant: compute_switch_probability without its except handler
compute_switch_probability_unguarded(client_id, data_service, lookback_days) ==
    compute_switch_probability_try(client_id, data_service, lookback_days)

\* except Exception as e, lines 535-545
compute_except(r) == IF r.exc THEN Ok(error_result(r.msg)) ELSE r

compute_switch_probability(client_id, data_service, lookback_days) ==
    compute_except(
        compute_switch_probability_try(client_id, data_service, lookback_days))

\* the summary dict of lines 25-64 for the fetched trades and the result of
\* compute_switch_probability
summary_of(trades, switch_result) ==
    IF switch_result.exc THEN switch_result
    ELSE Ok([trade_count |-> Len(trades),
             position_flips |->
                 IF \A i \in 1..Len(trades) : trades[i].timestamp.parseable
                 THEN _count_position_flips(trades) ELSE 0,
             switch_prob |-> switch_result.val.switch_prob,
             switch_reasoning |-> switch_result.val.reasoning,
             switch_components |->
                 <<switch_result.val.pattern_instability,
                   switch_result.val.change_point,
                   switch_result.val.momentum_shift,
                   switch_result.val.flip_acceleration,
                   switch_result.val.feature_drift>>])

\* the body of the try of fetch_trades_summary, lines 22-64.  The code that
\* fetches `trades` is elided in the source: as written the name is unbound
\* and line 26 raises NameError; trades_bound stands for a fetch from the
\* data service in its place.
fetch_trades_summary_try(client_id, data_service, trades_bound) ==
    IF ~trades_bound THEN Raise("NameError: name 'trades' is not defined")
    ELSE IF data_service.get_trades.exc THEN data_service.get_trades
    ELSE summary_of(data_service.get_trades.val,
                    compute_switch_probability(client_id, data_service, 90))

\* the dict of the except handler, lines 66-75
error_summary(msg) ==
    [error |-> msg,
     trade_count |-> 0,
     switch_prob |-> 300000,
     switch_reasoning |-> <<"Error computing switch probability">>,
     switch_components |-> <<>>]

\* except Exception as e, lines 66-75
fetch_except(r) == IF r.exc THEN Ok(error_summary(r.msg)) ELSE r

fetch_trades_summary(client_id, data_service, trades_bound) ==
    fetch_except(fetch_trades_summary_try(client_id, data_service, trades_bound))

IdleCaller ==
    [pc |-> "idle", entry |-> "none", data_service |-> NoService,
     lookback_days |-> 90, trades_bound |-> FALSE, out |-> NoRet]

InitService ==
    /\ svc = IdleCaller
    /\ self = Calculator(90, 14, 300000)
    /\ pc = "idle"
    /\ args = NoArgs
    /\ ret = NoRet
    /\ IdleThreads
    /\ IdleQueue
    /\ IdleStream

\* the caller invokes compute_switch_probability(client_id, data_service,
\* lookback_days)
CallCompute ==
    /\ svc.pc = "idle"
    /\ \E data_service \in DataServices, lookback_days \in LookbackDays :
           svc' = [svc EXCEPT !.pc = "calling",
                              !.entry = "compute_switch_probability",
                              !.data_service = data_service,
                              !.lookback_days = lookback_days]
    /\ UNCHANGED <<calc_vars, thread_vars, queue_vars, stream_vars>>

\* the caller invokes fetch_trades_summary(client_id, data_service)
CallFetch ==
    /\ svc.pc = "idle"
    /\ \E data_service \in DataServices, trades_bound \in BOOLEAN :
           svc' = [svc EXCEPT !.pc = "calling",
                              !.entry = "fetch_trades_summary",
                              !.data_service = data_service,
                              !.trades_bound = trades_bound]
    /\ UNCHANGED <<calc_vars, thread_vars, queue_vars, stream_vars>>

\* compute_switch_probability runs to its return
ComputeSwitchProbability ==
    /\ svc.pc = "calling"
    /\ svc.entry = "compute_switch_probability"
    /\ \E out \in {compute_switch_probability("ACME_FX_023", svc.data_service,
                                               svc.lookback_days)} :
           svc' = [svc EXCEPT !.out = out,
                              !.pc = IF out.exc THEN "raised" ELSE "returned"]
    /\ UNCHANGED <<calc_vars, thread_vars, queue_vars, stream_vars>>

\* fetch_trades_summary runs to its return
FetchTradesSummary ==
    /\ svc.pc = "calling"
    /\ svc.entry = "fetch_trades_summary"
    /\ \E out \in {fetch_trades_summary("ACME_FX_023", svc.data_service,
                                         svc.trades_bound)} :
           svc' = [svc EXCEPT !.out = out,
                              !.pc = IF out.exc THEN "raised" ELSE "returned"]
    /\ UNCHANGED <<calc_vars, thread_vars, queue_vars, stream_vars>>

\* the caller takes the outcome
ServiceDone ==
    /\ svc.pc \in {"returned", "raised"}
    /\ svc' = IdleCaller
    /\ UNCHANGED <<calc_vars, thread_vars, queue_vars, stream_vars>>

NextService ==
    \/ CallCompute
    \/ CallFetch
    \/ ComputeSwitchProbability
    \/ FetchTradesSummary
    \/ ServiceDone

SpecService == InitService /\ [][NextService]_vars

-----------------------------------------------------------------------------
(* Properties of the entry points                                          *)

\* a method of the data service raises
ServiceFails(ds) ==
    ds.get_trades.exc \/ ds.get_positions.exc \/ ds.get_client_features.exc

\* the message of the first method of the data service that raises
FirstFailure(ds) ==
    IF ds.get_trades.exc THEN ds.get_trades.msg
    ELSE IF ds.get_positions.exc THEN ds.get_positions.msg
    ELSE ds.get_client_features.msg

\* C28: compute_switch_probability never raises: if the data service fails
\* while fetching trades, positions or features it returns switch_prob
\* 0.30, all five component scores 0.0 and a reasoning string carrying the
\* error; and fetch_trades_summary in turn reports switch_prob 0.30 on any
\* failure.
C28_ServiceFailureIsBaseline ==
    /\ svc.pc # "raised"
    /\ (svc.pc = "returned" /\ svc.entry = "compute_switch_probability"
        /\ ServiceFails(svc.data_service)) =>
           /\ svc.out.val.switch_prob = 300000
           /\ svc.out.val.pattern_instability = 0
           /\ svc.out.val.change_point = 0
           /\ svc.out.val.momentum_shift = 0
           /\ svc.out.val.flip_acceleration = 0
           /\ svc.out.val.feature_drift = 0
           /\ svc.out.val.reasoning =
                  <<"Error in calculation", FirstFailure(svc.data_service)>>
    /\ (svc.pc = "returned" /\ svc.entry = "fetch_trades_summary"
        /\ (~svc.trades_bound \/ ServiceFails(svc.data_service))) =>
           svc.out.val.switch_prob = 300000

\* compute_switch_probability has returned after the features could not be
\* fetched for a client with trades
C28_Witness ==
    /\ svc.pc = "returned"
    /\ svc.entry = "compute_switch_probability"
    /\ ~svc.data_service.get_trades.exc
    /\ svc.data_service.get_trades.val = Step(21, 7, 2, 10)
    /\ ~svc.data_service.get_positions.exc
    /\ svc.data_service.get_client_features.exc
    /\ svc.out.val.switch_prob = 300000
    /\ svc.out.val.reasoning = <<"Error in calculation", "get_client_features failed">>

-----------------------------------------------------------------------------
(* The floor of the scorers' contribution                                  *)

\* the smallest probability a scored history can get from this calculator
ScoredFloor(slf) == Min(850000, slf.baseline_prob + 70000)

\* C29 as claimed: for every non-empty trade history that does not end in a
\* short-circuit baseline result, change_point is at least 0.05 and
\* flip_acceleration at least 0.02, the five scores add up to at least 0.07,
\* and the returned switch_prob is at least min(0.85, baseline_prob + 0.07);
\* with the default baseline 0.30 every returned switch_prob is exactly 0.30
\* or at least 0.37, and the sum of baseline and scores is never below the
\* lower clamp 0.15.
C29_ScorersAddAtLeastSevenHundredths ==
    /\ (Returned /\ args.trades # <<>> /\ NotShortCircuit(ret.val)) =>
           /\ ret.val.change_point >= 50000
           /\ ret.val.flip_acceleration >= 20000
           /\ UnroundedSum(self, args) >= 70000
           /\ ret.val.switch_prob >= ScoredFloor(self)
           /\ self.baseline_prob = 300000 =>
                  self.baseline_prob + UnroundedSum(self, args) >= 150000
    /\ (Returned /\ self.baseline_prob = 300000) =>
           ret.val.switch_prob = 300000 \/ ret.val.switch_prob >= 370000

\* C29 as the code has it: the floor min(0.85, baseline_prob + 0.07) bounds
\* the probability before it is rounded to two decimals; the returned
\* switch_prob is at most 0.005 below the floor, and not below it when
\* baseline_prob is a whole number of hundredths.  The rest is as claimed.
C29_RoundedProbWithinHalfHundredthOfFloor ==
    /\ (Returned /\ args.trades # <<>> /\ NotShortCircuit(ret.val)) =>
           /\ ret.val.change_point >= 50000
           /\ ret.val.flip_acceleration >= 20000
           /\ UnroundedSum(self, args) >= 70000
           /\ Clamp(self.baseline_prob + UnroundedSum(self, args)) >= ScoredFloor(self)
           /\ ret.val.switch_prob + 5000 >= ScoredFloor(self)
           /\ self.baseline_prob % 10000 = 0 =>
                  ret.val.switch_prob >= ScoredFloor(self)
           /\ self.baseline_prob = 300000 =>
                  self.baseline_prob + UnroundedSum(self, args) >= 150000
    /\ (Returned /\ self.baseline_prob = 300000) =>
           ret.val.switch_prob = 300000 \/ ret.val.switch_prob >= 370000

\* the hedged 90-day history on the calculator with baseline 0.3005:
\* change_point 0.05, flip_acceleration 0.02, momentum 0.004 and nothing
\* else; 0.37494 is returned as 0.37, under the floor 0.3705
C29_Witness ==
    /\ Returned
    /\ args.trades = Hedged(90)
    /\ NotShortCircuit(ret.val)
    /\ self.baseline_prob = 300500
    /\ ret.val.flip_acceleration = 20000
    /\ ret.val.change_point = 50000
    /\ ret.val.momentum_shift = 4000
    /\ ret.val.switch_prob = 370000

-----------------------------------------------------------------------------
(* The alert stream of the API facade: stream_alerts (routes/alerts.py)    *)
(* polls app.state.alert_queue, and the demo routes (routes/demo.py) get   *)
(* their AlertQueue from Depends().  The handlers are coroutines of one    *)
(* event loop: a handler runs without interruption up to its next yield or *)
(* await, so each call of a queue method is one step.                      *)

StreamIds == {"s1", "s2"}

\* demo requests (trigger-alert and reset-demo) served in one run
MaxRequests == 3

\* AlertQueue(): lines 27-39 of alert_queue.py, history_hours = 24
NewAlertQueue ==
    [_pending |-> <<>>, _history |-> <<>>, _lock |-> "free", _history_hours |-> 24]

\* add, lines 48-57: the alerts of this model carry their timestamp
add_alert(que, alert) ==
    [que EXCEPT !._pending = Append(@, alert),
                !._history = deque_append(@, alert, HistoryMaxLen)]

\* get_pending, lines 70-82: the list returned and the queue left behind
get_pending_alerts(que) ==
    [alerts |-> que._pending, que |-> [que EXCEPT !._pending = <<>>]]

\* alert_queue: AlertQueue = Depends() (demo.py lines 45 and 113): with no
\* callable given, the dependency is the annotated class, and FastAPI calls
\* AlertQueue() for every request
depends_alert_queue(app_queue) == NewAlertQueue

\* a stream that no client has opened
IdleStreamGen == [pc |-> "idle", alerts |-> <<>>, sent |-> <<>>]

\* lifespan (main.py line 40): app.state.alert_queue = AlertQueue()
InitStream ==
    /\ sse = [alert_queue |-> NewAlertQueue,
              request_queues |-> <<>>,
              streams |-> [s \in StreamIds |-> IdleStreamGen],
              triggered |-> {},
              next_id |-> 1]
    /\ self = Calculator(90, 14, 300000)
    /\ pc = "idle"
    /\ args = NoArgs
    /\ ret = NoRet
    /\ IdleThreads
    /\ IdleQueue
    /\ IdleService

\* GET /alerts/stream, lines 21-31 and 100: the generator is created over
\* request.app.state.alert_queue
Connect(s) ==
    /\ sse.streams[s].pc = "idle"
    /\ sse' = [sse EXCEPT !.streams[s].pc = "initial"]
    /\ UNCHANGED <<calc_vars, thread_vars, queue_vars, service_vars>>

\* lines 37-46: the connection message is sent
SendInitial(s) ==
    /\ sse.streams[s].pc = "initial"
    /\ sse' = [sse EXCEPT !.streams[s].pc = "poll"]
    /\ UNCHANGED <<calc_vars, thread_vars, queue_vars, service_vars>>

\* line 56: alerts = alert_queue.get_pending()
Poll(s) ==
    /\ sse.streams[s].pc = "poll"
    /\ \E got \in {get_pending_alerts(sse.alert_queue)} :
           sse' = [sse EXCEPT !.alert_queue = got.que,
                              !.streams[s].alerts = got.alerts,
                              !.streams[s].pc = "send"]
    /\ UNCHANGED <<calc_vars, thread_vars, queue_vars, service_vars>>

\* lines 66-69: the next alert of the list is sent to the client
SendAlert(s) ==
    /\ sse.streams[s].pc = "send"
    /\ sse.streams[s].alerts # <<>>
    /\ sse' = [sse EXCEPT !.streams[s].sent = Append(@, Head(sse.streams[s].alerts).id),
                          !.streams[s].alerts = Tail(@)]
    /\ UNCHANGED <<calc_vars, thread_vars, queue_vars, service_vars>>

\* lines 72-86: after the list, a keepalive is sent if 30 seconds have
\* passed since the last one, and the generator sleeps for a second
EndOfList(s) ==
    /\ sse.streams[s].pc = "send"
    /\ sse.streams[s].alerts = <<>>
    /\ \E seconds_since_keepalive \in {0, 30} :
           sse' = [sse EXCEPT !.streams[s].pc =
                      IF seconds_since_keepalive >= 30 THEN "keepalive" ELSE "sleep"]
    /\ UNCHANGED <<calc_vars, thread_vars, queue_vars, service_vars>>

\* line 81: the keepalive message is sent
SendKeepalive(s) ==
    /\ sse.streams[s].pc = "keepalive"
    /\ sse' = [sse EXCEPT !.streams[s].pc = "sleep"]
    /\ UNCHANGED <<calc_vars, thread_vars, queue_vars, service_vars>>

\* line 86: asyncio.sleep(1) is over
Wake(s) ==
    /\ sse.streams[s].pc = "sleep"
    /\ sse' = [sse EXCEPT !.streams[s].pc = "poll"]
    /\ UNCHANGED <<calc_vars, thread_vars, queue_vars, service_vars>>

\* lines 88-90: the client goes away while the generator is suspended at a
\* yield or in the sleep; the generator is cancelled with what is left of
\* its list
Disconnect(s) ==
    /\ sse.streams[s].pc \in {"initial", "send", "keepalive", "sleep"}
    /\ sse' = [sse EXCEPT !.streams[s].pc = "closed"]
    /\ UNCHANGED <<calc_vars, thread_vars, queue_vars, service_vars>>

\* POST /api/v1/demo/trigger-alert, demo.py lines 43-101: the alert is built
\* with its timestamp and added to the queue the dependency supplies
trigger_demo_alert ==
    /\ sse.next_id <= MaxAlerts
    /\ Len(sse.request_queues) < MaxRequests
    /\ \E alert_queue \in {depends_alert_queue(sse.alert_queue)} :
           sse' = [sse EXCEPT
                      !.request_queues =
                          Append(@, add_alert(alert_queue, Alert(sse.next_id, Naive(0)))),
                      !.triggered = @ \cup {sse.next_id},
                      !.next_id = @ + 1]
    /\ UNCHANGED <<calc_vars, thread_vars, queue_vars, service_vars>>

\* POST /api/v1/demo/reset-demo, demo.py lines 112-129: clear() on the queue
\* the dependency supplies
reset_demo ==
    /\ Len(sse.request_queues) < MaxRequests
    /\ \E alert_queue \in {depends_alert_queue(sse.alert_queue)} :
           sse' = [sse EXCEPT !.request_queues = Append(@, clear_body(alert_queue))]
    /\ UNCHANGED <<calc_vars, thread_vars, queue_vars, service_vars>>

\* a holder of the application's queue (get_alert_queue, main.py lines
\* 116-118) calls add
AddToAppQueue ==
    /\ sse.next_id <= MaxAlerts
    /\ sse' = [sse EXCEPT
                  !.alert_queue = add_alert(@, Alert(sse.next_id, Naive(0))),
                  !.next_id = @ + 1]
    /\ UNCHANGED <<calc_vars, thread_vars, queue_vars, service_vars>>

\* the steps the event loop runs for a connected stream
StreamStep(s) ==
    \/ SendInitial(s)
    \/ Poll(s)
    \/ SendAlert(s)
    \/ EndOfList(s)
    \/ SendKeepalive(s)
    \/ Wake(s)

NextStream ==
    \/ \E s \in StreamIds : Connect(s)
    \/ \E s \in StreamIds : StreamStep(s)
    \/ \E s \in StreamIds : Disconnect(s)
    \/ trigger_demo_alert
    \/ reset_demo
    \/ AddToAppQueue

SpecStream == InitStream /\ [][NextStream]_vars

\* the event loop resumes every generator that is ready to run: a stream
\* that stays connected sends what it holds and polls again after each sleep
SpecStreamLive ==
    SpecStream /\ \A s \in StreamIds : WF_vars(StreamStep(s))

-----------------------------------------------------------------------------
(* Properties of the alert stream                                          *)

\* the number of times stream s has sent alert id
TimesSent(s, id) ==
    Cardinality({k \in 1..Len(sse.streams[s].sent) : sse.streams[s].sent[k] = id})

Emitted(id) == \E s \in StreamIds : TimesSent(s, id) > 0

EmittedOnce(id) ==
    /\ \A s \in StreamIds : TimesSent(s, id) <= 1
    /\ \A s, t \in StreamIds : (TimesSent(s, id) > 0 /\ TimesSent(t, id) > 0) => s = t

Polling(s) == sse.streams[s].pc \in {"poll", "send", "keepalive", "sleep"}

\* C30: when some stream keeps polling, every alert added through
\* trigger-alert is eventually emitted on a connected stream, and no alert is
\* ever emitted twice or on two streams.  (No reset-demo removes an alert of
\* another request, so that proviso needs no condition.)
C30_TriggeredAlertIsEmittedOnce ==
    (\E s \in StreamIds : <>[]Polling(s)) =>
        /\ \A id \in 1..MaxAlerts : (id \in sse.triggered) ~> Emitted(id)
        /\ [](\A id \in 1..MaxAlerts : EmittedOnce(id))

=============================================================================
